---- MODULE Spec2Model ----
(***************************************************************************)
(* State-machine model of the authentication API: the auth controller,     *)
(* the User model (Mongoose schema, hooks, TTL indexes), the JWT           *)
(* middleware and the protected profile route.                             *)
(*                                                                         *)
(* Strings are sequences of one-character strings so that trim,            *)
(* toLowerCase and the regular expressions are computed, not assumed.      *)
(* Time is counted in ticks of 15 minutes.                                 *)
(***************************************************************************)
EXTENDS Integers, Sequences, FiniteSets, TLC

(***************************************************************************)
(* Bounds of the model                                                     *)
(***************************************************************************)
MaxTime == 3
NumDigits == 2
NumSalts == 1
MaxUsers == 2
MaxFailures == 6
MaxHits == 6
MaxFive == 1

(***************************************************************************)
(* Program constants (time in ticks of 15 minutes)                         *)
(***************************************************************************)
CODE_LENGTH == 1
CODE_EXPIRES_MIN == 1
JWT_EXPIRES_IN == 2
maxAttempts == 5
lockTime == 2

Slots == {1, 2}
NodeEnvs == {"production", "development"}

NoUser == [none |-> "user"]
NoCode == [none |-> "code"]
NoToken == [none |-> "token"]
NoResp == [none |-> "resp"]
NoDate == -1

(***************************************************************************)
(* Character classes and string functions                                  *)
(***************************************************************************)
UpperSeq == <<"A","B","C","D","E","F","G","H","I","J","K","L","M",
              "N","O","P","Q","R","S","T","U","V","W","X","Y","Z">>
LowerSeq == <<"a","b","c","d","e","f","g","h","i","j","k","l","m",
              "n","o","p","q","r","s","t","u","v","w","x","y","z">>
DigitSeq == <<"0","1","2","3","4","5","6","7","8","9">>
UpperCase == {UpperSeq[i] : i \in DOMAIN UpperSeq}
LowerCase == {LowerSeq[i] : i \in DOMAIN LowerSeq}
DigitChars == {DigitSeq[i] : i \in DOMAIN DigitSeq}
SpecialChars == {"!","@","#","$","%","^","&","*","(",")",",",".","?","\"",":","{","}","|","<",">"}
WhiteSpace == {" ", "\t", "\n"}

LowerChar(c) ==
  IF c \in UpperCase
    THEN LowerSeq[CHOOSE i \in DOMAIN UpperSeq : UpperSeq[i] = c]
    ELSE c

toLowerCase(s) == [i \in DOMAIN s |-> LowerChar(s[i])]

RECURSIVE trimStart(_)
trimStart(s) ==
  IF s # <<>> /\ Head(s) \in WhiteSpace THEN trimStart(Tail(s)) ELSE s

RECURSIVE trimEnd(_)
trimEnd(s) ==
  IF s # <<>> /\ s[Len(s)] \in WhiteSpace
    THEN trimEnd(SubSeq(s, 1, Len(s) - 1))
    ELSE s

trim(s) == trimEnd(trimStart(s))

normalizeEmail(email) == trim(toLowerCase(email))

\* [^\s@]+
NoSpaceNoAt(s) ==
  /\ s # <<>>
  /\ \A i \in DOMAIN s : s[i] \notin WhiteSpace \cup {"@"}

\* /^[^\s@]+@[^\s@]+\.[^\s@]+$/
isValidEmail(email) ==
  \E i \in DOMAIN email :
    /\ email[i] = "@"
    /\ NoSpaceNoAt(SubSeq(email, 1, i - 1))
    /\ \E j \in DOMAIN email :
         /\ j > i
         /\ email[j] = "."
         /\ NoSpaceNoAt(SubSeq(email, i + 1, j - 1))
         /\ NoSpaceNoAt(SubSeq(email, j + 1, Len(email)))

HasChar(s, class) == \E i \in DOMAIN s : s[i] \in class

validatePassword(password) ==
  IF password = <<>> \/ Len(password) < 8
    THEN [isValid |-> FALSE,
          message |-> "Password must be at least 8 characters long"]
  ELSE IF ~ HasChar(password, UpperCase) \/ ~ HasChar(password, LowerCase)
          \/ ~ HasChar(password, DigitChars) \/ ~ HasChar(password, SpecialChars)
    THEN [isValid |-> FALSE,
          message |-> "Password must contain at least one uppercase letter, one lowercase letter, one number, and one special character"]
  ELSE [isValid |-> TRUE, message |-> ""]

\* Math.floor(Math.random() * 10), length times: every digit string can come out
generateNumericCode(length) ==
  [1..length -> {DigitSeq[d + 1] : d \in 0..(NumDigits - 1)}]

\* SHA-256 hex digest: deterministic and (ideally) collision free
hashCode(code) == [sha256 |-> code]

addMinutes(date, minutes) == date + minutes

Salts == 1..NumSalts

\* bcrypt.hash(password, salt): the digest embeds its salt
bcryptHash(password, salt) == [salt |-> salt, digest |-> <<salt, password>>]

\* a comparison that looks at the salt of the digest only
bcryptCompareSaltOnly(password, hash) ==
  bcryptHash(password, hash.salt).salt = hash.salt

\* bcrypt.compare(password, hash): re-hash with the embedded salt
bcryptCompare(password, hash) == bcryptHash(password, hash.salt) = hash

(***************************************************************************)
(* Inputs                                                                  *)
(***************************************************************************)
EmailLower == <<"a","@","x",".","c">>
EmailUpper == <<"A","@","X",".","c">>
EmailPadded == <<" ","a","@","x",".","c">>
EmailInputs == {EmailLower, EmailUpper, EmailPadded}

PassOne == <<"A","b","c","d","1","2","3","!">>
PassTwo == <<"X","y","z","w","4","5","6","?">>
PassWeak == <<"a","b","c","d","1","2","3","4">>
PasswordInputs == {PassOne, PassTwo, PassWeak}

PaddedCode == <<" ">> \o <<DigitSeq[1]>>
CodeInputs == generateNumericCode(CODE_LENGTH) \cup {PaddedCode}

\* the e-mail keys of the users collection
Keys == {normalizeEmail(e) : e \in EmailInputs}


(***************************************************************************)
(* State                                                                   *)
(***************************************************************************)
VARIABLES
  nodeEnv,   \* process.env.NODE_ENV
  now,       \* the clock (new Date(), Date.now())
  users,     \* the users collection, by its unique e-mail key
  nextId,    \* the next _id a new document gets
  req,       \* the requests in flight, one per slot
  wallet,    \* the token the client received last
  streak,    \* history: consecutive wrong-password signins per account
  streakAt,  \* history: time of the signin that brought the streak to maxAttempts
  codeUse,   \* history: per account, what happened to each reset-code digest
  track,     \* which history the specification records
  hits,      \* the rate limiters' stores for the client, and what they admitted
  boot       \* startServer: where it is and what it has done

vars == <<nodeEnv, now, users, nextId, req, wallet, streak, streakAt, codeUse, track, hits, boot>>

Digests == {hashCode(c) : c \in generateNumericCode(CODE_LENGTH)}

IdleReq ==
  [op |-> "none", pc |-> "idle", email |-> <<>>, code |-> <<>>,
   password |-> <<>>, user |-> NoUser, upd |-> <<>>, plain |-> <<>>,
   token |-> NoToken, auth |-> NoUser, resp |-> NoResp]

\* res.status(status).json({ error })
Fail(status, error) ==
  [status |-> status, error |-> error, message |-> "", token |-> NoToken,
   user |-> NoUser, devVerificationCode |-> <<>>, stats |-> NoUser]

\* res.status(status).json({ message })
Reply(status, message) ==
  [status |-> status, error |-> "", message |-> message, token |-> NoToken,
   user |-> NoUser, devVerificationCode |-> <<>>, stats |-> NoUser]

\* the response is sent: the handler's locals are gone
Done(r, resp) ==
  [r EXCEPT !.pc = "done", !.resp = resp, !.upd = <<>>, !.plain = <<>>,
            !.token = NoToken]

\* a field of the request body, or a path of a document, that is not there
Undefined == <<"undefined">>

\* name: null
Null == <<"null">>

\* profile: { firstName, lastName, avatar } of a new document
NoProfile == [firstName |-> Undefined, lastName |-> Undefined, avatar |-> Undefined]

\* new User({...}): the schema defaults of a new document
NewUser(id, email, passwordHash, emailVerification) ==
  [id |-> id, email |-> email, passwordHash |-> passwordHash,
   name |-> Null, emailVerified |-> FALSE,
   emailVerification |-> emailVerification, passwordReset |-> NoCode,
   lastLogin |-> NoDate, loginAttempts |-> 0, accountLocked |-> FALSE,
   lockUntil |-> NoDate, isActive |-> TRUE, profile |-> NoProfile]

\* the document with its modified paths
Merge(upd, doc) ==
  [f \in DOMAIN doc |-> IF f \in DOMAIN upd THEN upd[f] ELSE doc[f]]

Expired(pending, date) == pending # NoCode /\ pending.expiresAt < date

\* a save without the cleanup of expired codes
preSaveKeepsExpired(doc, upd, date) == upd

\* userSchema.pre('save'): expired pending codes of the document being saved
\* are unset (updatedAt is not modelled)
preSave(doc, upd, date) ==
  LET cur == Merge(upd, doc)
      dropEmail == Expired(cur.emailVerification, date)
      dropReset == Expired(cur.passwordReset, date)
  IN  [f \in DOMAIN upd \cup (IF dropEmail THEN {"emailVerification"} ELSE {})
                        \cup (IF dropReset THEN {"passwordReset"} ELSE {}) |->
         IF f = "emailVerification" /\ dropEmail THEN NoCode
         ELSE IF f = "passwordReset" /\ dropReset THEN NoCode
         ELSE upd[f]]

\* User.findOne({ email })
findOne(email) == IF email \in Keys THEN users[email] ELSE NoUser

\* the document of a request is still the stored one (updateOne by _id matches)
Stored(r) ==
  /\ r.user # NoUser
  /\ users[r.user.email] # NoUser
  /\ users[r.user.email].id = r.user.id

\* user.save() of a loaded document: the pre-save hook runs on the document
\* at the time of the save, then the modified paths are written by _id
saveUser(r) ==
  [users EXCEPT ![r.user.email] = Merge(preSave(r.user, r.upd, now), @)]

\* history: a pending reset code with this digest is issued for the account
Issue(use, digest) ==
  IF track = "codes"
    THEN [use EXCEPT ![digest] = IF @ = "spent" THEN "reissued" ELSE @]
    ELSE use

\* history: a reset code with this digest is accepted for the account
Spend(use, digest) ==
  IF track = "codes" THEN [use EXCEPT ![digest] = "spent"] ELSE use

(***************************************************************************)
(* express-rate-limit: the stores of the three limiters, for one client.   *)
(* The limiters' time is counted in units of 5 minutes, three to a tick of *)
(* the clock.                                                              *)
(***************************************************************************)
\* strictLimiter, verificationLimiter, authLimiter: windowMs and max
strictWindowMs == 3
strictMax == 5
verificationWindowMs == 1
verificationMax == 3
authWindowMs == 3
authMax == 20

Routes == {"signup", "verifyEmail", "signin", "resendVerification",
           "forgotPassword", "resetPassword"}

\* the limiter in front of each route
LimiterOf(route) ==
  IF route \in {"verifyEmail", "resendVerification"}
    THEN "verificationLimiter" ELSE "strictLimiter"

WindowMs(limiter) ==
  IF limiter = "verificationLimiter" THEN verificationWindowMs
  ELSE IF limiter = "strictLimiter" THEN strictWindowMs
  ELSE authWindowMs

Max(limiter) ==
  IF limiter = "verificationLimiter" THEN verificationMax
  ELSE IF limiter = "strictLimiter" THEN strictMax
  ELSE authMax

TooMany(limiter) ==
  IF limiter = "verificationLimiter"
    THEN "Too many verification attempts. Please try again in 5 minutes."
  ELSE IF limiter = "strictLimiter"
    THEN "Too many attempts. Please try again in 15 minutes."
  ELSE "Too many authentication attempts, please try again later"

\* a key of the memory store without hits
NoWindow == [totalHits |-> 0, resetTime |-> 0]

\* store.increment(key): the window of a key starts with its first hit and
\* lasts windowMs
increment(window, windowMs, date) ==
  IF window.totalHits = 0 \/ window.resetTime <= date
    THEN [totalHits |-> 1, resetTime |-> date + windowMs]
    ELSE [window EXCEPT !.totalHits = @ + 1]

NoHits ==
  [sub |-> 0,
   authLimiter |-> NoWindow, strictLimiter |-> NoWindow,
   verificationLimiter |-> NoWindow,
   sent |-> [strictLimiter |-> NoWindow, verificationLimiter |-> NoWindow],
   pass |-> [s \in Slots |-> "none"]]

\* startServer has not begun
Starting ==
  [pc |-> "initMailer", mailer |-> "none", db |-> "none", exit |-> NoDate,
   log |-> <<>>]

\* startServer went through: the mailer is initialized, the database is
\* connected and the server listens
Listening ==
  [pc |-> "listening", mailer |-> "ok", db |-> "connected", exit |-> NoDate,
   log |-> <<"initMailer", "connectDB", "listen">>]

\* the configuration, the empty collection and the client before the
\* first request
InitServer(history) ==
  /\ track = history
  /\ nodeEnv \in NodeEnvs
  /\ now = 0
  /\ users = [k \in Keys |-> NoUser]
  /\ nextId = 1
  /\ req = [s \in Slots |-> IdleReq]
  /\ wallet = NoToken
  /\ streak = [k \in Keys |-> 0]
  /\ streakAt = [k \in Keys |-> 0]
  /\ codeUse = [k \in Keys |-> [d \in Digests |-> "unused"]]
  /\ hits = NoHits

InitWith(history) ==
  /\ boot = Listening
  /\ InitServer(history)

(***************************************************************************)
(* The clock and the store's TTL monitor                                   *)
(***************************************************************************)
Tick(max) ==
  /\ now < max
  /\ now' = now + 1
  /\ UNCHANGED <<nodeEnv, users, nextId, req, wallet, streak, streakAt, codeUse, track, hits, boot>>

\* index: { expireAfterSeconds: 0 } on emailVerification.expiresAt and
\* passwordReset.expiresAt: the store deletes the documents of the users
\* collection whose indexed date has passed
TTLExpire ==
  \E k \in Keys :
    /\ users[k] # NoUser
    /\ \/ Expired(users[k].emailVerification, now)
       \/ Expired(users[k].passwordReset, now)
    /\ users' = [users EXCEPT ![k] = NoUser]
    /\ UNCHANGED <<nodeEnv, now, nextId, req, wallet, streak, streakAt, codeUse, track, hits, boot>>

\* the client reads the response; the slot is free for the next request
Finish(s) ==
  /\ req[s].pc = "done"
  /\ req' = [req EXCEPT ![s] = IdleReq]
  /\ UNCHANGED <<nodeEnv, now, users, nextId, wallet, streak, streakAt, codeUse, track, hits, boot>>

(***************************************************************************)
(* exports.signup                                                          *)
(***************************************************************************)
Signup(s, email, password) ==
  /\ req[s].pc = "idle"
  /\ LET r == [IdleReq EXCEPT !.op = "signup", !.email = email,
                              !.password = password]
         normalizedEmail == normalizeEmail(email)
     IN
     IF email = <<>> \/ password = <<>>
       THEN /\ req' = [req EXCEPT ![s] = Done(r, Fail(400, "Email and password are required"))]
            /\ UNCHANGED nextId
     ELSE IF ~ isValidEmail(email)
       THEN /\ req' = [req EXCEPT ![s] = Done(r, Fail(400, "Please provide a valid email address"))]
            /\ UNCHANGED nextId
     ELSE IF ~ validatePassword(password).isValid
       THEN /\ req' = [req EXCEPT ![s] = Done(r, Fail(400, validatePassword(password).message))]
            /\ UNCHANGED nextId
     ELSE IF findOne(normalizedEmail) # NoUser
       THEN /\ req' = [req EXCEPT ![s] = Done(r, Fail(409, "An account with this email already exists"))]
            /\ UNCHANGED nextId
     ELSE /\ nextId <= MaxUsers
          /\ \E salt \in Salts, verificationCode \in generateNumericCode(CODE_LENGTH) :
               req' = [req EXCEPT ![s] =
                 [r EXCEPT !.pc = "save",
                           !.plain = verificationCode,
                           !.user = NewUser(nextId, normalizedEmail,
                                      bcryptHash(password, salt),
                                      [codeHash |-> hashCode(verificationCode),
                                       expiresAt |-> addMinutes(now, CODE_EXPIRES_MIN)])]]
          /\ nextId' = nextId + 1
  /\ UNCHANGED <<nodeEnv, now, users, wallet, streak, streakAt, codeUse, track, hits, boot>>

\* await user.save() of the new document: the unique index on email decides
SignupSave(s) ==
  /\ req[s].pc = "save"
  /\ req[s].op = "signup"
  /\ LET doc == req[s].user
     IN
     IF users[doc.email] # NoUser
       THEN \* E11000 duplicate key, caught by the handler's catch
            /\ req' = [req EXCEPT ![s] = Done(@, Fail(500, "Failed to create account. Please try again."))]
            /\ UNCHANGED users
       ELSE /\ users' = [users EXCEPT ![doc.email] = Merge(preSave(doc, <<>>, now), doc)]
            /\ req' = [req EXCEPT ![s].pc = "mail"]
  /\ UNCHANGED <<nodeEnv, now, nextId, wallet, streak, streakAt, codeUse, track, hits, boot>>

\* a signup that removes the account again when the delivery fails
SignupMailRollsBack(s) ==
  /\ req[s].pc = "mail"
  /\ req[s].op = "signup"
  /\ \E delivered \in BOOLEAN :
       IF delivered
         THEN /\ req' = [req EXCEPT ![s] = Done(@, Reply(201, "Account created successfully. Please check your email for verification code."))]
              /\ UNCHANGED users
         ELSE /\ req' = [req EXCEPT ![s] = Done(@, Fail(500, "Account created but failed to send verification email. Please contact support."))]
              /\ users' = [users EXCEPT ![req[s].user.email] = NoUser]
  /\ UNCHANGED <<nodeEnv, now, nextId, wallet, streak, streakAt, codeUse, track, hits, boot>>

\* a signup that returns the code on a failed delivery in every environment
SignupMailLeaksCode(s) ==
  /\ req[s].pc = "mail"
  /\ req[s].op = "signup"
  /\ \E delivered \in BOOLEAN :
       req' = [req EXCEPT ![s] =
         IF delivered
           THEN Done(@, Reply(201, "Account created successfully. Please check your email for verification code."))
           ELSE Done(@, [Reply(201, "Account created successfully (email delivery failed in development).")
                           EXCEPT !.devVerificationCode = req[s].plain])]
  /\ UNCHANGED <<nodeEnv, now, users, nextId, wallet, streak, streakAt, codeUse, track, hits, boot>>

\* sendVerificationEmail and the response
SignupMail(s) ==
  /\ req[s].pc = "mail"
  /\ req[s].op = "signup"
  /\ \E delivered \in BOOLEAN :
       req' = [req EXCEPT ![s] =
         IF delivered
           THEN Done(@, Reply(201, "Account created successfully. Please check your email for verification code."))
         ELSE IF nodeEnv # "production"
           THEN Done(@, [Reply(201, "Account created successfully (email delivery failed in development).")
                           EXCEPT !.devVerificationCode = req[s].plain])
         ELSE Done(@, Fail(500, "Account created but failed to send verification email. Please contact support."))]
  /\ UNCHANGED <<nodeEnv, now, users, nextId, wallet, streak, streakAt, codeUse, track, hits, boot>>

(***************************************************************************)
(* exports.verifyEmail                                                     *)
(***************************************************************************)
\* a verification that marks the account verified but leaves the code pending
verifiedUpdateKeepsCode == [emailVerified |-> TRUE]

\* user.emailVerified = true; user.emailVerification = undefined
verifiedUpdate == [emailVerified |-> TRUE, emailVerification |-> NoCode]

\* a verification that withdraws the pending code when the submitted code is
\* not the issued one
VerifyEmailBurnsCode(s, email, code) ==
  /\ req[s].pc = "idle"
  /\ LET r == [IdleReq EXCEPT !.op = "verifyEmail", !.email = email, !.code = code]
         user == findOne(normalizeEmail(email))
         pending == /\ email # <<>> /\ code # <<>> /\ isValidEmail(email)
                    /\ user # NoUser
                    /\ ~ user.emailVerified
                    /\ user.emailVerification # NoCode
                    /\ now <= user.emailVerification.expiresAt
         wrong == pending /\ hashCode(trim(code)) # user.emailVerification.codeHash
     IN
     /\ req' = [req EXCEPT ![s] =
          IF wrong
            THEN Done(r, Fail(400, "Invalid verification code"))
          ELSE IF pending
            THEN [r EXCEPT !.pc = "save", !.user = user,
                           !.upd = preSave(user, verifiedUpdate, now)]
          ELSE Done(r, Fail(400, "Invalid email or verification code"))]
     /\ users' = IF wrong
                   THEN [users EXCEPT ![user.email].emailVerification = NoCode]
                   ELSE users
  /\ UNCHANGED <<nodeEnv, now, nextId, wallet, streak, streakAt, codeUse, track, hits, boot>>

VerifyEmail(s, email, code) ==
  /\ req[s].pc = "idle"
  /\ LET r == [IdleReq EXCEPT !.op = "verifyEmail", !.email = email, !.code = code]
         user == findOne(normalizeEmail(email))
     IN
     req' = [req EXCEPT ![s] =
       IF email = <<>> \/ code = <<>>
         THEN Done(r, Fail(400, "Email and verification code are required"))
       ELSE IF ~ isValidEmail(email)
         THEN Done(r, Fail(400, "Please provide a valid email address"))
       ELSE IF user = NoUser
         THEN Done(r, Fail(400, "Invalid email or verification code"))
       ELSE IF user.emailVerified
         THEN Done(r, Fail(400, "Email is already verified"))
       ELSE IF user.emailVerification = NoCode
         THEN Done(r, Fail(400, "No verification code found. Please request a new one."))
       ELSE IF now > user.emailVerification.expiresAt
         THEN Done(r, Fail(400, "Verification code has expired. Please request a new one."))
       ELSE IF hashCode(trim(code)) # user.emailVerification.codeHash
         THEN Done(r, Fail(400, "Invalid verification code"))
       ELSE [r EXCEPT !.pc = "save", !.user = user,
                      !.upd = preSave(user, verifiedUpdate, now)]]
  /\ UNCHANGED <<nodeEnv, now, users, nextId, wallet, streak, streakAt, codeUse, track, hits, boot>>

VerifyEmailSave(s) ==
  /\ req[s].pc = "save"
  /\ req[s].op = "verifyEmail"
  /\ IF Stored(req[s])
       THEN /\ users' = saveUser(req[s])
            /\ req' = [req EXCEPT ![s] = Done(@, Reply(200, "Email verified successfully! You can now sign in."))]
       ELSE \* DocumentNotFoundError
            /\ req' = [req EXCEPT ![s] = Done(@, Fail(500, "Failed to verify email. Please try again."))]
            /\ UNCHANGED users
  /\ UNCHANGED <<nodeEnv, now, nextId, wallet, streak, streakAt, codeUse, track, hits, boot>>

(***************************************************************************)
(* Tokens: jwt.sign and jwt.verify with process.env.JWT_SECRET             *)
(***************************************************************************)
JWT_SECRET == "secret"

jwtSign(payload, secret, expiresIn, date) ==
  [id |-> payload.id, email |-> payload.email, iat |-> date,
   exp |-> date + expiresIn, sig |-> secret]

\* a verification that checks the signature only (ignoreExpiration)
jwtVerifyIgnoreExpiration(token, secret, date) ==
  IF token.sig # secret THEN [error |-> "JsonWebTokenError"]
  ELSE [error |-> "", id |-> token.id, email |-> token.email, exp |-> token.exp]

\* the signature is checked first, then the expiry
jwtVerify(token, secret, date) ==
  IF token.sig # secret THEN [error |-> "JsonWebTokenError"]
  ELSE IF date >= token.exp THEN [error |-> "TokenExpiredError"]
  ELSE [error |-> "", id |-> token.id, email |-> token.email, exp |-> token.exp]

\* verifyToken: the AppError thrown for a token jwt.verify rejects
verifyToken(token, date) ==
  LET payload == jwtVerify(token, JWT_SECRET, date)
  IN  IF payload.error = "TokenExpiredError"
        THEN Fail(401, "Your session has expired. Please sign in again.")
      ELSE IF payload.error = "JsonWebTokenError"
        THEN Fail(401, "Invalid authentication token. Please sign in again.")
      ELSE NoResp

\* a payload without id (undefined or another falsy value) and one without
\* email
NoId == 0
NoEmail == <<>>

\* a middleware that takes any payload jwt.verify returns
authMiddlewareTrustsPayload(token, date) ==
  IF token = NoToken
    THEN Fail(401, "Access denied. No authentication token provided.")
  ELSE verifyToken(token, date)

\* authMiddleware: the error passed to next(), or NoResp when req.user is set
authMiddleware(token, date) ==
  IF token = NoToken
    THEN Fail(401, "Access denied. No authentication token provided.")
  ELSE IF verifyToken(token, date) # NoResp
    THEN verifyToken(token, date)
  ELSE IF token.id = NoId \/ token.email = NoEmail
    THEN Fail(401, "Invalid token payload. Please sign in again.")
  ELSE NoResp

(***************************************************************************)
(* exports.logout                                                          *)
(***************************************************************************)
\* a logout that wipes the last-login date of the stored accounts
LogoutClearsLastLogin(s) ==
  /\ req[s].pc = "idle"
  /\ req' = [req EXCEPT ![s] =
       Done([IdleReq EXCEPT !.op = "logout"], Reply(200, "Logged out successfully"))]
  /\ users' = [k \in Keys |->
                 IF users[k] = NoUser THEN NoUser
                 ELSE [users[k] EXCEPT !.lastLogin = NoDate]]
  /\ UNCHANGED <<nodeEnv, now, nextId, wallet, streak, streakAt, codeUse, track, hits, boot>>

\* POST /logout: res.json({ message }); nothing is read or written
Logout(s) ==
  /\ req[s].pc = "idle"
  /\ req' = [req EXCEPT ![s] =
       Done([IdleReq EXCEPT !.op = "logout"], Reply(200, "Logged out successfully"))]
  /\ UNCHANGED <<nodeEnv, now, users, nextId, wallet, streak, streakAt, codeUse, track, hits, boot>>

(***************************************************************************)
(* exports.signin                                                          *)
(***************************************************************************)
\* a signin that does not look at emailVerified
signinSkipsVerification(email, password) ==
  LET r == [IdleReq EXCEPT !.op = "signin", !.email = email, !.password = password]
      user == findOne(normalizeEmail(email))
  IN  IF email = <<>> \/ password = <<>>
        THEN Done(r, Fail(400, "Email and password are required"))
      ELSE IF ~ isValidEmail(email)
        THEN Done(r, Fail(400, "Please provide a valid email address"))
      ELSE IF user = NoUser
        THEN Done(r, Fail(401, "Invalid email or password"))
      ELSE IF ~ bcryptCompare(password, user.passwordHash)
        THEN Done(r, Fail(401, "Invalid email or password"))
      ELSE [r EXCEPT !.pc = "save", !.user = user,
                     !.token = jwtSign([id |-> user.id, email |-> user.email],
                                       JWT_SECRET, JWT_EXPIRES_IN, now),
                     !.upd = preSave(user, [lastLogin |-> now], now)]

\* a signin that tells an absent account from a wrong password
signinRevealsAbsence(email, password) ==
  LET r == [IdleReq EXCEPT !.op = "signin", !.email = email, !.password = password]
      user == findOne(normalizeEmail(email))
  IN  IF email = <<>> \/ password = <<>>
        THEN Done(r, Fail(400, "Email and password are required"))
      ELSE IF ~ isValidEmail(email)
        THEN Done(r, Fail(400, "Please provide a valid email address"))
      ELSE IF user = NoUser
        THEN Done(r, Fail(404, "No account found with this email address"))
      ELSE IF ~ bcryptCompare(password, user.passwordHash)
        THEN Done(r, Fail(401, "Invalid email or password"))
      ELSE IF ~ user.emailVerified
        THEN Done(r, Fail(403, "Please verify your email before signing in"))
      ELSE [r EXCEPT !.pc = "save", !.user = user,
                     !.token = jwtSign([id |-> user.id, email |-> user.email],
                                       JWT_SECRET, JWT_EXPIRES_IN, now),
                     !.upd = preSave(user, [lastLogin |-> now], now)]

\* a signin that looks at emailVerified before it compares the password
signinChecksVerificationFirst(email, password) ==
  LET r == [IdleReq EXCEPT !.op = "signin", !.email = email, !.password = password]
      user == findOne(normalizeEmail(email))
  IN  IF email = <<>> \/ password = <<>>
        THEN Done(r, Fail(400, "Email and password are required"))
      ELSE IF ~ isValidEmail(email)
        THEN Done(r, Fail(400, "Please provide a valid email address"))
      ELSE IF user = NoUser
        THEN Done(r, Fail(401, "Invalid email or password"))
      ELSE IF ~ user.emailVerified
        THEN Done(r, Fail(403, "Please verify your email before signing in"))
      ELSE IF ~ bcryptCompare(password, user.passwordHash)
        THEN Done(r, Fail(401, "Invalid email or password"))
      ELSE [r EXCEPT !.pc = "save", !.user = user,
                     !.token = jwtSign([id |-> user.id, email |-> user.email],
                                       JWT_SECRET, JWT_EXPIRES_IN, now),
                     !.upd = preSave(user, [lastLogin |-> now], now)]

\* the handler up to its save: the response, or the document to save and
\* the token signed for it
signin(email, password) ==
  LET r == [IdleReq EXCEPT !.op = "signin", !.email = email, !.password = password]
      user == findOne(normalizeEmail(email))
  IN  IF email = <<>> \/ password = <<>>
        THEN Done(r, Fail(400, "Email and password are required"))
      ELSE IF ~ isValidEmail(email)
        THEN Done(r, Fail(400, "Please provide a valid email address"))
      ELSE IF user = NoUser
        THEN Done(r, Fail(401, "Invalid email or password"))
      ELSE IF ~ bcryptCompare(password, user.passwordHash)
        THEN Done(r, Fail(401, "Invalid email or password"))
      ELSE IF ~ user.emailVerified
        THEN Done(r, Fail(403, "Please verify your email before signing in"))
      ELSE [r EXCEPT !.pc = "save", !.user = user,
                     !.token = jwtSign([id |-> user.id, email |-> user.email],
                                       JWT_SECRET, JWT_EXPIRES_IN, now),
                     !.upd = preSave(user, [lastLogin |-> now], now)]

\* history: a wrong password for an existing, verified account
WrongPassword(email, password) ==
  LET user == findOne(normalizeEmail(email))
  IN  /\ email # <<>> /\ password # <<>> /\ isValidEmail(email)
      /\ user # NoUser
      /\ user.emailVerified
      /\ ~ bcryptCompare(password, user.passwordHash)

Signin(s, email, password) ==
  /\ req[s].pc = "idle"
  /\ req' = [req EXCEPT ![s] = signin(email, password)]
  /\ LET key == normalizeEmail(email)
     IN  IF track = "streak" /\ WrongPassword(email, password) /\ streak[key] < maxAttempts
           THEN /\ streak' = [streak EXCEPT ![key] = @ + 1]
                /\ streakAt' = [streakAt EXCEPT ![key] =
                                  IF streak[key] + 1 = maxAttempts THEN now ELSE @]
           ELSE UNCHANGED <<streak, streakAt>>
  /\ UNCHANGED <<nodeEnv, now, users, nextId, wallet, codeUse, track, hits, boot>>

SigninSave(s) ==
  /\ req[s].pc = "save"
  /\ req[s].op = "signin"
  /\ LET user == req[s].user
     IN
     IF Stored(req[s])
       THEN /\ users' = saveUser(req[s])
            /\ req' = [req EXCEPT ![s] =
                 Done(@, [Reply(200, "Signed in successfully") EXCEPT
                            !.token = req[s].token,
                            !.user = [id |-> user.id, email |-> user.email,
                                      name |-> user.name,
                                      emailVerified |-> user.emailVerified]])]
            /\ wallet' = req[s].token
            /\ streak' = [streak EXCEPT ![user.email] = 0]
            /\ streakAt' = [streakAt EXCEPT ![user.email] = 0]
       ELSE /\ req' = [req EXCEPT ![s] = Done(@, Fail(500, "Failed to sign in. Please try again."))]
            /\ UNCHANGED <<users, wallet, streak, streakAt>>
  /\ UNCHANGED <<nodeEnv, now, nextId, codeUse, track, hits, boot>>

(***************************************************************************)
(* exports.resendVerification                                              *)
(***************************************************************************)
ResendVerification(s, email) ==
  /\ req[s].pc = "idle"
  /\ LET r == [IdleReq EXCEPT !.op = "resendVerification", !.email = email]
         user == findOne(normalizeEmail(email))
     IN
     IF email = <<>>
       THEN req' = [req EXCEPT ![s] = Done(r, Fail(400, "Email is required"))]
     ELSE IF ~ isValidEmail(email)
       THEN req' = [req EXCEPT ![s] = Done(r, Fail(400, "Please provide a valid email address"))]
     ELSE IF user = NoUser
       THEN req' = [req EXCEPT ![s] = Done(r, Fail(404, "No account found with this email address"))]
     ELSE IF user.emailVerified
       THEN req' = [req EXCEPT ![s] = Done(r, Fail(400, "Email is already verified"))]
     ELSE \E verificationCode \in generateNumericCode(CODE_LENGTH) :
            req' = [req EXCEPT ![s] =
              [r EXCEPT !.pc = "save", !.user = user,
                        !.upd = preSave(user,
                                  [emailVerification |->
                                     [codeHash |-> hashCode(verificationCode),
                                      expiresAt |-> addMinutes(now, CODE_EXPIRES_MIN)]],
                                  now)]]
  /\ UNCHANGED <<nodeEnv, now, users, nextId, wallet, streak, streakAt, codeUse, track, hits, boot>>

\* a resend that mails a new code without storing it
ResendVerificationSaveSkips(s) ==
  /\ req[s].pc = "save"
  /\ req[s].op = "resendVerification"
  /\ req' = [req EXCEPT ![s].pc = "mail"]
  /\ UNCHANGED <<nodeEnv, now, users, nextId, wallet, streak, streakAt, codeUse, track, hits, boot>>

ResendVerificationSave(s) ==
  /\ req[s].pc = "save"
  /\ req[s].op = "resendVerification"
  /\ IF Stored(req[s])
       THEN /\ users' = saveUser(req[s])
            /\ req' = [req EXCEPT ![s].pc = "mail"]
       ELSE /\ req' = [req EXCEPT ![s] = Done(@, Fail(500, "Failed to resend verification code. Please try again."))]
            /\ UNCHANGED users
  /\ UNCHANGED <<nodeEnv, now, nextId, wallet, streak, streakAt, codeUse, track, hits, boot>>

ResendVerificationMail(s) ==
  /\ req[s].pc = "mail"
  /\ req[s].op = "resendVerification"
  /\ \E delivered \in BOOLEAN :
       req' = [req EXCEPT ![s] =
         IF delivered
           THEN Done(@, Reply(200, "Verification code sent to your email"))
           ELSE Done(@, Fail(500, "Failed to resend verification code. Please try again."))]
  /\ UNCHANGED <<nodeEnv, now, users, nextId, wallet, streak, streakAt, codeUse, track, hits, boot>>

(***************************************************************************)
(* exports.forgotPassword                                                  *)
(***************************************************************************)
successMessage == "If an account with this email exists, a password reset code has been sent."

ForgotPassword(s, email) ==
  /\ req[s].pc = "idle"
  /\ LET r == [IdleReq EXCEPT !.op = "forgotPassword", !.email = email]
         user == findOne(normalizeEmail(email))
     IN
     IF email = <<>>
       THEN req' = [req EXCEPT ![s] = Done(r, Fail(400, "Email is required"))]
     ELSE IF ~ isValidEmail(email)
       THEN req' = [req EXCEPT ![s] = Done(r, Fail(400, "Please provide a valid email address"))]
     ELSE IF user = NoUser
       THEN req' = [req EXCEPT ![s] = Done(r, Reply(200, successMessage))]
     ELSE \E resetCode \in generateNumericCode(CODE_LENGTH) :
            req' = [req EXCEPT ![s] =
              [r EXCEPT !.pc = "save", !.user = user,
                        !.upd = preSave(user,
                                  [passwordReset |->
                                     [codeHash |-> hashCode(resetCode),
                                      expiresAt |-> addMinutes(now, CODE_EXPIRES_MIN)]],
                                  now)]]
  /\ UNCHANGED <<nodeEnv, now, users, nextId, wallet, streak, streakAt, codeUse, track, hits, boot>>

ForgotPasswordSave(s) ==
  /\ req[s].pc = "save"
  /\ req[s].op = "forgotPassword"
  /\ IF Stored(req[s])
       THEN /\ users' = saveUser(req[s])
            /\ codeUse' = [codeUse EXCEPT ![req[s].user.email] =
                             Issue(@, req[s].upd.passwordReset.codeHash)]
            /\ req' = [req EXCEPT ![s].pc = "mail"]
       ELSE /\ req' = [req EXCEPT ![s] = Done(@, Fail(500, "Failed to process password reset request. Please try again."))]
            /\ UNCHANGED <<users, codeUse>>
  /\ UNCHANGED <<nodeEnv, now, nextId, wallet, streak, streakAt, track, hits, boot>>

ForgotPasswordMail(s) ==
  /\ req[s].pc = "mail"
  /\ req[s].op = "forgotPassword"
  /\ \E delivered \in BOOLEAN :
       req' = [req EXCEPT ![s] =
         IF delivered
           THEN Done(@, Reply(200, successMessage))
           ELSE Done(@, Fail(500, "Failed to process password reset request. Please try again."))]
  /\ UNCHANGED <<nodeEnv, now, users, nextId, wallet, streak, streakAt, codeUse, track, hits, boot>>

(***************************************************************************)
(* exports.resetPassword                                                   *)
(***************************************************************************)
\* a reset that also marks the e-mail address verified
resetUpdateVerifies(newPasswordHash) ==
  [passwordHash |-> newPasswordHash, passwordReset |-> NoCode, emailVerified |-> TRUE]

\* a reset that replaces the hash but leaves the reset code pending
resetUpdateKeepsCode(newPasswordHash) == [passwordHash |-> newPasswordHash]

\* user.passwordHash = newPasswordHash; user.passwordReset = undefined
resetUpdate(newPasswordHash) ==
  [passwordHash |-> newPasswordHash, passwordReset |-> NoCode]

ResetPassword(s, email, code, newPassword) ==
  /\ req[s].pc = "idle"
  /\ LET r == [IdleReq EXCEPT !.op = "resetPassword", !.email = email,
                              !.code = code, !.password = newPassword]
         user == findOne(normalizeEmail(email))
     IN
     IF email = <<>> \/ code = <<>> \/ newPassword = <<>>
       THEN req' = [req EXCEPT ![s] = Done(r, Fail(400, "Email, reset code, and new password are required"))]
     ELSE IF ~ isValidEmail(email)
       THEN req' = [req EXCEPT ![s] = Done(r, Fail(400, "Please provide a valid email address"))]
     ELSE IF ~ validatePassword(newPassword).isValid
       THEN req' = [req EXCEPT ![s] = Done(r, Fail(400, validatePassword(newPassword).message))]
     ELSE IF user = NoUser \/ user.passwordReset = NoCode
       THEN req' = [req EXCEPT ![s] = Done(r, Fail(400, "Invalid reset request"))]
     ELSE IF now > user.passwordReset.expiresAt
       THEN req' = [req EXCEPT ![s] = Done(r, Fail(400, "Reset code has expired. Please request a new one."))]
     ELSE IF hashCode(trim(code)) # user.passwordReset.codeHash
       THEN req' = [req EXCEPT ![s] = Done(r, Fail(400, "Invalid reset code"))]
     ELSE \E salt \in Salts :
            req' = [req EXCEPT ![s] =
              [r EXCEPT !.pc = "save", !.user = user,
                        !.upd = preSave(user, resetUpdate(bcryptHash(newPassword, salt)), now)]]
  /\ UNCHANGED <<nodeEnv, now, users, nextId, wallet, streak, streakAt, codeUse, track, hits, boot>>

ResetPasswordSave(s) ==
  /\ req[s].pc = "save"
  /\ req[s].op = "resetPassword"
  /\ IF Stored(req[s])
       THEN /\ users' = saveUser(req[s])
            /\ codeUse' = [codeUse EXCEPT ![req[s].user.email] =
                             Spend(@, req[s].user.passwordReset.codeHash)]
            /\ req' = [req EXCEPT ![s] = Done(@, Reply(200, "Password has been reset successfully. Please sign in with your new password."))]
       ELSE /\ req' = [req EXCEPT ![s] = Done(@, Fail(500, "Failed to reset password. Please try again."))]
            /\ UNCHANGED <<users, codeUse>>
  /\ UNCHANGED <<nodeEnv, now, nextId, wallet, streak, streakAt, track, hits, boot>>

(***************************************************************************)
(* Development-only endpoints: registered unless NODE_ENV is production    *)
(***************************************************************************)
\* a forced verification that is served in production too
DevVerifyEmailInProduction(s, email) ==
  /\ req[s].pc = "idle"
  /\ LET r == [IdleReq EXCEPT !.op = "devVerifyEmail", !.email = email]
         user == findOne(normalizeEmail(email))
     IN
     req' = [req EXCEPT ![s] =
       IF email = <<>>
         THEN Done(r, Fail(400, "Email is required"))
       ELSE IF ~ isValidEmail(email)
         THEN Done(r, Fail(400, "Please provide a valid email address"))
       ELSE IF user = NoUser
         THEN Done(r, Fail(404, "User not found"))
       ELSE [r EXCEPT !.pc = "save", !.user = user,
                      !.upd = preSave(user, [emailVerified |-> TRUE,
                                             emailVerification |-> NoCode], now)]]
  /\ UNCHANGED <<nodeEnv, now, users, nextId, wallet, streak, streakAt, codeUse, track, hits, boot>>

DevVerifyEmail(s, email) ==
  /\ req[s].pc = "idle"
  /\ LET r == [IdleReq EXCEPT !.op = "devVerifyEmail", !.email = email]
         user == findOne(normalizeEmail(email))
     IN
     req' = [req EXCEPT ![s] =
       IF nodeEnv = "production"
         THEN Done(r, Fail(404, "Route not found"))
       ELSE IF email = <<>>
         THEN Done(r, Fail(400, "Email is required"))
       ELSE IF ~ isValidEmail(email)
         THEN Done(r, Fail(400, "Please provide a valid email address"))
       ELSE IF user = NoUser
         THEN Done(r, Fail(404, "User not found"))
       ELSE [r EXCEPT !.pc = "save", !.user = user,
                      !.upd = preSave(user, [emailVerified |-> TRUE,
                                             emailVerification |-> NoCode], now)]]
  /\ UNCHANGED <<nodeEnv, now, users, nextId, wallet, streak, streakAt, codeUse, track, hits, boot>>

DevVerifyEmailSave(s) ==
  /\ req[s].pc = "save"
  /\ req[s].op = "devVerifyEmail"
  /\ IF Stored(req[s])
       THEN /\ users' = saveUser(req[s])
            /\ req' = [req EXCEPT ![s] = Done(@, Reply(200, "Email verified successfully (development mode)"))]
       ELSE /\ req' = [req EXCEPT ![s] = Done(@, Fail(500, "Failed to verify email"))]
            /\ UNCHANGED users
  /\ UNCHANGED <<nodeEnv, now, nextId, wallet, streak, streakAt, codeUse, track, hits, boot>>

DevResetPassword(s, email, newPassword) ==
  /\ req[s].pc = "idle"
  /\ LET r == [IdleReq EXCEPT !.op = "devResetPassword", !.email = email,
                              !.password = newPassword]
         user == findOne(normalizeEmail(email))
     IN
     IF nodeEnv = "production"
       THEN req' = [req EXCEPT ![s] = Done(r, Fail(404, "Route not found"))]
     ELSE IF email = <<>>
       THEN req' = [req EXCEPT ![s] = Done(r, Fail(400, "Email is required"))]
     ELSE IF ~ isValidEmail(email)
       THEN req' = [req EXCEPT ![s] = Done(r, Fail(400, "Please provide a valid email address"))]
     ELSE IF newPassword = <<>>
       THEN req' = [req EXCEPT ![s] = Done(r, Fail(400, "Email and new password are required"))]
     ELSE IF ~ validatePassword(newPassword).isValid
       THEN req' = [req EXCEPT ![s] = Done(r, Fail(400, validatePassword(newPassword).message))]
     ELSE IF user = NoUser
       THEN req' = [req EXCEPT ![s] = Done(r, Fail(404, "User not found"))]
     ELSE \E salt \in Salts :
            req' = [req EXCEPT ![s] =
              [r EXCEPT !.pc = "save", !.user = user,
                        !.upd = preSave(user, [passwordHash |-> bcryptHash(newPassword, salt)], now)]]
  /\ UNCHANGED <<nodeEnv, now, users, nextId, wallet, streak, streakAt, codeUse, track, hits, boot>>

DevResetPasswordSave(s) ==
  /\ req[s].pc = "save"
  /\ req[s].op = "devResetPassword"
  /\ IF Stored(req[s])
       THEN /\ users' = saveUser(req[s])
            /\ req' = [req EXCEPT ![s] = Done(@, Reply(200, "Password updated successfully (development mode)"))]
       ELSE /\ req' = [req EXCEPT ![s] = Done(@, Fail(500, "Failed to reset password"))]
            /\ UNCHANGED users
  /\ UNCHANGED <<nodeEnv, now, nextId, wallet, streak, streakAt, codeUse, track, hits, boot>>

(***************************************************************************)
(* GET /api/me behind authMiddleware                                       *)
(***************************************************************************)
\* User.findById(id)
findById(id) ==
  IF \E k \in Keys : users[k] # NoUser /\ users[k].id = id
    THEN users[CHOOSE k \in Keys : users[k] # NoUser /\ users[k].id = id]
    ELSE NoUser

\* the virtual fullName
fullName(user) ==
  IF user.profile.firstName # Undefined /\ user.profile.lastName # Undefined
    THEN user.profile.firstName \o <<" ">> \o user.profile.lastName
  ELSE IF user.name = Null THEN <<>> ELSE user.name

\* userSchema.methods.toSafeObject (the timestamps are not modelled)
toSafeObject(user) ==
  [id |-> user.id, email |-> user.email, name |-> user.name,
   fullName |-> fullName(user), emailVerified |-> user.emailVerified,
   profile |-> user.profile, lastLogin |-> user.lastLogin,
   isActive |-> user.isActive]

\* a token whose signature was not made with JWT_SECRET
ForgedToken ==
  [id |-> 1, email |-> EmailLower, iat |-> 0, exp |-> MaxTime + 1, sig |-> "forged"]

GetMe(s, token) ==
  /\ req[s].pc = "idle"
  /\ LET r == [IdleReq EXCEPT !.op = "getMe", !.token = token]
         denied == authMiddleware(token, now)
         user == findById(token.id)
     IN
     req' = [req EXCEPT ![s] =
       IF denied # NoResp
         THEN [Done(r, denied) EXCEPT !.token = token]
       ELSE IF user = NoUser
         THEN [Done(r, Fail(404, "User not found")) EXCEPT
                 !.token = token, !.auth = [id |-> token.id, email |-> token.email]]
       ELSE IF ~ user.isActive
         THEN [Done(r, Fail(403, "Account has been deactivated")) EXCEPT
                 !.token = token, !.auth = [id |-> token.id, email |-> token.email]]
       ELSE [Done(r, [Reply(200, "") EXCEPT !.user = toSafeObject(user)]) EXCEPT
               !.token = token, !.auth = [id |-> token.id, email |-> token.email]]]
  /\ UNCHANGED <<nodeEnv, now, users, nextId, wallet, streak, streakAt, codeUse, track, hits, boot>>

(***************************************************************************)
(* PUT /api/me, DELETE /api/me, GET /api/account/stats                     *)
(***************************************************************************)
NameInputs == {Undefined, <<" ">>, <<"n", " ">>}
\* a body without profile changes what a body with an empty profile changes
ProfileInputs ==
  {NoProfile, [firstName |-> <<"f", " ">>, lastName |-> Undefined, avatar |-> <<" ">>]}

\* the errorHandler's response to an error that is not an AppError
ServerError ==
  Fail(500, IF nodeEnv = "production"
              THEN "Something went wrong. Please try again later."
              ELSE "DocumentNotFoundError")

\* the request passed authMiddleware: req.user is set
Authed(r, token) ==
  [r EXCEPT !.token = token, !.auth = [id |-> token.id, email |-> token.email]]

\* field?.trim() || old
trimOr(field, old) ==
  IF field = Undefined \/ trim(field) = <<>> THEN old ELSE trim(field)

\* an update that stores the profile of the body in place of the merged one
profileUpdateDropsOthers(user, name, profile) ==
  [f \in (IF name # Undefined THEN {"name"} ELSE {}) \cup
         (IF profile # NoProfile THEN {"profile"} ELSE {}) |->
     IF f = "name"
       THEN (IF trim(name) = <<>> THEN Null ELSE trim(name))
       ELSE [g \in DOMAIN profile |->
               IF profile[g] = Undefined THEN Undefined ELSE trim(profile[g])]]

\* the paths PUT /api/me modifies
profileUpdate(user, name, profile) ==
  [f \in (IF name # Undefined THEN {"name"} ELSE {}) \cup
         (IF profile # NoProfile THEN {"profile"} ELSE {}) |->
     IF f = "name"
       THEN (IF trim(name) = <<>> THEN Null ELSE trim(name))
       ELSE [firstName |-> trimOr(profile.firstName, user.profile.firstName),
             lastName |-> trimOr(profile.lastName, user.profile.lastName),
             avatar |-> trimOr(profile.avatar, user.profile.avatar)]]

UpdateMe(s, token, name, profile) ==
  /\ req[s].pc = "idle"
  /\ LET r == [IdleReq EXCEPT !.op = "updateMe"]
         denied == authMiddleware(token, now)
         user == findById(token.id)
     IN
     req' = [req EXCEPT ![s] =
       IF denied # NoResp
         THEN [Done(r, denied) EXCEPT !.token = token]
       ELSE IF user = NoUser
         THEN Authed(Done(r, Fail(404, "User not found")), token)
       ELSE IF ~ user.isActive
         THEN Authed(Done(r, Fail(403, "Account has been deactivated")), token)
       ELSE Authed([r EXCEPT !.pc = "save", !.user = user,
                             !.upd = preSave(user, profileUpdate(user, name, profile), now)],
                   token)]
  /\ UNCHANGED <<nodeEnv, now, users, nextId, wallet, streak, streakAt, codeUse, track, hits, boot>>

UpdateMeSave(s) ==
  /\ req[s].pc = "save"
  /\ req[s].op = "updateMe"
  /\ IF Stored(req[s])
       THEN /\ users' = saveUser(req[s])
            /\ req' = [req EXCEPT ![s] =
                 [Done(@, [Reply(200, "Profile updated successfully") EXCEPT
                             !.user = toSafeObject(Merge(req[s].upd, req[s].user))])
                    EXCEPT !.token = req[s].token]]
       ELSE /\ req' = [req EXCEPT ![s] = [Done(@, ServerError) EXCEPT !.token = req[s].token]]
            /\ UNCHANGED users
  /\ UNCHANGED <<nodeEnv, now, nextId, wallet, streak, streakAt, codeUse, track, hits, boot>>

\* a deactivation that also withdraws the verification
deactivateUpdateUnverifies == [isActive |-> FALSE, emailVerified |-> FALSE]

\* user.isActive = false
deactivateUpdate == [isActive |-> FALSE]

DeleteMe(s, token) ==
  /\ req[s].pc = "idle"
  /\ LET r == [IdleReq EXCEPT !.op = "deleteMe"]
         denied == authMiddleware(token, now)
         user == findById(token.id)
     IN
     req' = [req EXCEPT ![s] =
       IF denied # NoResp
         THEN [Done(r, denied) EXCEPT !.token = token]
       ELSE IF user = NoUser
         THEN Authed(Done(r, Fail(404, "User not found")), token)
       ELSE Authed([r EXCEPT !.pc = "save", !.user = user,
                             !.upd = preSave(user, deactivateUpdate, now)],
                   token)]
  /\ UNCHANGED <<nodeEnv, now, users, nextId, wallet, streak, streakAt, codeUse, track, hits, boot>>

\* a deactivation that deletes the document
DeleteMeSaveRemoves(s) ==
  /\ req[s].pc = "save"
  /\ req[s].op = "deleteMe"
  /\ IF Stored(req[s])
       THEN /\ users' = [users EXCEPT ![req[s].user.email] = NoUser]
            /\ req' = [req EXCEPT ![s] =
                 [Done(@, Reply(200, "Account has been deactivated successfully"))
                    EXCEPT !.token = req[s].token]]
       ELSE /\ req' = [req EXCEPT ![s] = [Done(@, ServerError) EXCEPT !.token = req[s].token]]
            /\ UNCHANGED users
  /\ UNCHANGED <<nodeEnv, now, nextId, wallet, streak, streakAt, codeUse, track, hits, boot>>

DeleteMeSave(s) ==
  /\ req[s].pc = "save"
  /\ req[s].op = "deleteMe"
  /\ IF Stored(req[s])
       THEN /\ users' = saveUser(req[s])
            /\ req' = [req EXCEPT ![s] =
                 [Done(@, Reply(200, "Account has been deactivated successfully"))
                    EXCEPT !.token = req[s].token]]
       ELSE /\ req' = [req EXCEPT ![s] = [Done(@, ServerError) EXCEPT !.token = req[s].token]]
            /\ UNCHANGED users
  /\ UNCHANGED <<nodeEnv, now, nextId, wallet, streak, streakAt, codeUse, track, hits, boot>>

\* the number of filled fields among name, firstName, lastName, emailVerified,
\* as a percentage (Math.round of a multiple of 25)
calculateProfileCompleteness(user) ==
  LET filled == (IF user.name # Null THEN 1 ELSE 0)
              + (IF user.profile.firstName # Undefined THEN 1 ELSE 0)
              + (IF user.profile.lastName # Undefined THEN 1 ELSE 0)
              + (IF user.emailVerified THEN 1 ELSE 0)
  IN  filled * 25

accountStats(user) ==
  [lastLogin |-> user.lastLogin, emailVerified |-> user.emailVerified,
   profileCompleteness |-> calculateProfileCompleteness(user),
   accountStatus |-> IF user.isActive THEN "active" ELSE "inactive"]

GetStats(s, token) ==
  /\ req[s].pc = "idle"
  /\ LET r == [IdleReq EXCEPT !.op = "getStats"]
         denied == authMiddleware(token, now)
         user == findById(token.id)
     IN
     req' = [req EXCEPT ![s] =
       IF denied # NoResp
         THEN [Done(r, denied) EXCEPT !.token = token]
       ELSE IF user = NoUser
         THEN Authed(Done(r, Fail(404, "User not found")), token)
       ELSE Authed(Done(r, [Reply(200, "") EXCEPT !.stats = accountStats(user)]), token)]
  /\ UNCHANGED <<nodeEnv, now, users, nextId, wallet, streak, streakAt, codeUse, track, hits, boot>>

\* GET /api/health/detailed: the answer names the user of the token (the
\* status of the services is not modelled)
GetHealthDetailed(s, token) ==
  /\ req[s].pc = "idle"
  /\ LET r == [IdleReq EXCEPT !.op = "getHealthDetailed"]
         denied == authMiddleware(token, now)
     IN
     req' = [req EXCEPT ![s] =
       IF denied # NoResp
         THEN [Done(r, denied) EXCEPT !.token = token]
       ELSE Authed(Done(r, [Reply(200, "") EXCEPT
                              !.user = [id |-> token.id, email |-> token.email]]),
                   token)]
  /\ UNCHANGED <<nodeEnv, now, users, nextId, wallet, streak, streakAt, codeUse, track, hits, boot>>

(***************************************************************************)
(* The methods of the User model                                           *)
(***************************************************************************)
\* a lock status that does not look at the clock
isLockedIgnoresTime(user, date) ==
  user.accountLocked /\ user.lockUntil # NoDate

\* the virtual isLocked
isLocked(user, date) ==
  user.accountLocked /\ user.lockUntil # NoDate /\ user.lockUntil > date

\* userSchema.methods.isAccountLocked
isAccountLocked(user, date) ==
  user.accountLocked /\ user.lockUntil # NoDate /\ user.lockUntil > date

\* an increment that starts the counter anew when it locks the account
incrementUpdateResets(user, date) ==
  IF user.loginAttempts + 1 >= maxAttempts
    THEN [loginAttempts |-> 0, accountLocked |-> TRUE,
          lockUntil |-> date + lockTime]
    ELSE [loginAttempts |-> user.loginAttempts + 1]

\* the paths incrementLoginAttempts modifies
incrementUpdate(user, date) ==
  IF user.loginAttempts + 1 >= maxAttempts
    THEN [loginAttempts |-> user.loginAttempts + 1, accountLocked |-> TRUE,
          lockUntil |-> date + lockTime]
    ELSE [loginAttempts |-> user.loginAttempts + 1]

\* user.incrementLoginAttempts() by a caller that holds the stored document
IncrementLoginAttempts(k) ==
  /\ users[k] # NoUser
  /\ users[k].loginAttempts < MaxFailures
  /\ users' = [users EXCEPT ![k] =
                 Merge(preSave(@, incrementUpdate(@, now), now), @)]
  /\ UNCHANGED <<nodeEnv, now, nextId, req, wallet, streak, streakAt, codeUse, track, hits, boot>>

\* user.incrementLoginAttempts() on a copy a caller read with findOne: the
\* count of the copy is incremented in memory ...
LoadAndIncrement(s, k) ==
  /\ req[s].pc = "idle"
  /\ users[k] # NoUser
  /\ users[k].loginAttempts < MaxFailures
  /\ req' = [req EXCEPT ![s] =
       [IdleReq EXCEPT !.op = "incrementLoginAttempts", !.pc = "save",
                       !.email = k, !.user = users[k],
                       !.upd = preSave(users[k], incrementUpdate(users[k], now), now)]]
  /\ UNCHANGED <<nodeEnv, now, users, nextId, wallet, streak, streakAt, codeUse, track, hits, boot>>

\* ... and this.save() writes the modified paths ($set) by _id
IncrementSave(s) ==
  /\ req[s].pc = "save"
  /\ req[s].op = "incrementLoginAttempts"
  /\ users' = IF Stored(req[s]) THEN saveUser(req[s]) ELSE users
  /\ req' = [req EXCEPT ![s] = Done(@, NoResp)]
  /\ UNCHANGED <<nodeEnv, now, nextId, wallet, streak, streakAt, codeUse, track, hits, boot>>

\* the paths resetLoginAttempts modifies
resetLoginUpdate(date) ==
  [loginAttempts |-> 0, accountLocked |-> FALSE, lockUntil |-> NoDate,
   lastLogin |-> date]

\* user.resetLoginAttempts() by a caller that holds the stored document
ResetLoginAttempts(k) ==
  /\ users[k] # NoUser
  /\ users[k].loginAttempts > 0
  /\ users' = [users EXCEPT ![k] =
                 Merge(preSave(@, resetLoginUpdate(now), now), @)]
  /\ UNCHANGED <<nodeEnv, now, nextId, req, wallet, streak, streakAt, codeUse, track, hits, boot>>

\* toJSON: the paths of the document and the virtuals (virtuals: true), then
\* the transform deletes passwordHash, emailVerification, passwordReset,
\* loginAttempts, accountLocked and lockUntil
toJSON(user, date) ==
  LET deleted == {"passwordHash", "emailVerification", "passwordReset",
                  "loginAttempts", "accountLocked", "lockUntil"}
      ret == [f \in DOMAIN user \cup {"fullName", "isLocked"} |->
                IF f = "fullName" THEN fullName(user)
                ELSE IF f = "isLocked" THEN isLocked(user, date)
                ELSE user[f]]
  IN  [f \in DOMAIN ret \ deleted |-> ret[f]]

\* JSON.stringify(user) of a stored document, sent as a response
Serialize(s, k) ==
  /\ req[s].pc = "idle"
  /\ users[k] # NoUser
  /\ req' = [req EXCEPT ![s] =
       Done([IdleReq EXCEPT !.op = "toJSON", !.email = k],
            [Reply(200, "") EXCEPT !.user = toJSON(users[k], now)])]
  /\ UNCHANGED <<nodeEnv, now, users, nextId, wallet, streak, streakAt, codeUse, track, hits, boot>>

(***************************************************************************)
(* Specifications                                                          *)
(***************************************************************************)
\* the steps of the request in slot s
Request(s, emails, passwords, codes) ==
  \/ \E email \in emails, password \in passwords : Signup(s, email, password)
  \/ SignupSave(s)
  \/ SignupMail(s)
  \/ \E email \in emails, code \in codes : VerifyEmail(s, email, code)
  \/ VerifyEmailSave(s)
  \/ \E email \in emails, password \in passwords : Signin(s, email, password)
  \/ SigninSave(s)
  \/ \E email \in emails : ResendVerification(s, email)
  \/ ResendVerificationSave(s)
  \/ ResendVerificationMail(s)
  \/ \E email \in emails : ForgotPassword(s, email)
  \/ ForgotPasswordSave(s)
  \/ ForgotPasswordMail(s)
  \/ \E email \in emails, code \in codes, password \in passwords :
       ResetPassword(s, email, code, password)
  \/ ResetPasswordSave(s)
  \/ \E email \in emails : DevVerifyEmail(s, email)
  \/ DevVerifyEmailSave(s)
  \/ \E email \in emails, password \in passwords : DevResetPassword(s, email, password)
  \/ DevResetPasswordSave(s)
  \/ \E token \in {wallet, NoToken, ForgedToken} : GetMe(s, token)
  \/ Finish(s)

\* one client: a request starts when the previous one was answered
Init == InitWith("none")

Next ==
  \/ Tick(MaxTime)
  \/ TTLExpire
  \/ Request(1, EmailInputs, PasswordInputs, CodeInputs)

Spec == Init /\ [][Next]_vars

\* the same, recording the wrong-password streaks
SpecLock == InitWith("streak") /\ [][Next]_vars

\* the life of the one-time codes, recording their use: the operations that
\* issue, accept or clear a code, by one client with one spelling of the
\* e-mail and one password
OnceEmails == {EmailLower}
OncePasswords == {PassOne}

OnceRequest(s) ==
  \/ \E email \in OnceEmails, password \in OncePasswords : Signup(s, email, password)
  \/ SignupSave(s)
  \/ SignupMail(s)
  \/ \E email \in OnceEmails, code \in CodeInputs : VerifyEmail(s, email, code)
  \/ VerifyEmailSave(s)
  \/ \E email \in OnceEmails : ResendVerification(s, email)
  \/ ResendVerificationSave(s)
  \/ ResendVerificationMail(s)
  \/ \E email \in OnceEmails : ForgotPassword(s, email)
  \/ ForgotPasswordSave(s)
  \/ ForgotPasswordMail(s)
  \/ \E email \in OnceEmails, code \in CodeInputs, password \in OncePasswords :
       ResetPassword(s, email, code, password)
  \/ ResetPasswordSave(s)
  \/ \E email \in OnceEmails : DevVerifyEmail(s, email)
  \/ DevVerifyEmailSave(s)
  \/ \E email \in OnceEmails, password \in OncePasswords : DevResetPassword(s, email, password)
  \/ DevResetPasswordSave(s)
  \/ Finish(s)

NextOnce == Tick(MaxTime) \/ TTLExpire \/ OnceRequest(1)

SpecOnce == InitWith("codes") /\ [][NextOnce]_vars

\* userSchema.statics.cleanupExpiredCodes: updateMany with $unset of both
\* pending codes on every document one of whose codes has expired
CleanupExpiredCodes ==
  /\ \E k \in Keys :
       /\ users[k] # NoUser
       /\ Expired(users[k].emailVerification, now) \/ Expired(users[k].passwordReset, now)
  /\ users' = [k \in Keys |->
       IF /\ users[k] # NoUser
          /\ \/ Expired(users[k].emailVerification, now)
             \/ Expired(users[k].passwordReset, now)
         THEN [users[k] EXCEPT !.emailVerification = NoCode, !.passwordReset = NoCode]
         ELSE users[k]]
  /\ UNCHANGED <<nodeEnv, now, nextId, req, wallet, streak, streakAt, codeUse, track, hits, boot>>

\* the code lifecycle with the model's cleanup of expired codes
NextCleanup == NextOnce \/ CleanupExpiredCodes

SpecCleanup == Init /\ [][NextCleanup]_vars

\* the whole account API by one client: the auth routes and, with the token
\* the client holds, the protected routes
AccountEmails == {EmailLower}
AccountPasswords == {PassOne, PassTwo}

Protected(s) ==
  \/ \E name \in NameInputs, profile \in ProfileInputs : UpdateMe(s, wallet, name, profile)
  \/ UpdateMeSave(s)
  \/ DeleteMe(s, wallet)
  \/ DeleteMeSave(s)
  \/ GetStats(s, wallet)

NextAccount ==
  \/ Tick(MaxTime)
  \/ TTLExpire
  \/ Request(1, AccountEmails, AccountPasswords, CodeInputs)
  \/ Protected(1)
  \/ Logout(1)

SpecAccount == Init /\ [][NextAccount]_vars

\* signup, verification and signin by one client, and the methods of the
\* User model applied to the stored documents
ModelRequest(s) ==
  \/ \E email \in AccountEmails, password \in AccountPasswords : Signup(s, email, password)
  \/ SignupSave(s)
  \/ SignupMail(s)
  \/ \E email \in AccountEmails, code \in CodeInputs : VerifyEmail(s, email, code)
  \/ VerifyEmailSave(s)
  \/ \E email \in AccountEmails, password \in AccountPasswords : Signin(s, email, password)
  \/ SigninSave(s)
  \/ \E k \in Keys : Serialize(s, k)
  \/ Finish(s)

NextModel ==
  \/ Tick(MaxTime)
  \/ TTLExpire
  \/ ModelRequest(1)
  \/ \E k \in Keys : IncrementLoginAttempts(k)
  \/ \E k \in Keys : ResetLoginAttempts(k)

SpecModel == Init /\ [][NextModel]_vars

\* two requests in flight at once, within one tick of the clock: the signup,
\* verification and password-reset flows
RaceEmails == {EmailLower, EmailUpper}
RacePasswords == {PassOne, PassTwo}
RaceCodes == generateNumericCode(CODE_LENGTH)

RaceRequest(s) ==
  \/ \E email \in RaceEmails, password \in RacePasswords : Signup(s, email, password)
  \/ SignupSave(s)
  \/ SignupMail(s)
  \/ \E email \in RaceEmails, code \in RaceCodes : VerifyEmail(s, email, code)
  \/ VerifyEmailSave(s)
  \/ \E email \in RaceEmails : ForgotPassword(s, email)
  \/ ForgotPasswordSave(s)
  \/ ForgotPasswordMail(s)
  \/ \E email \in RaceEmails, code \in RaceCodes, password \in RacePasswords :
       ResetPassword(s, email, code, password)
  \/ ResetPasswordSave(s)
  \/ Finish(s)

NextRace == \E s \in Slots : RaceRequest(s)

SpecRace == Init /\ [][NextRace]_vars

\* two requests in flight at once on the verification routes of one account
ResendRaceRequest(s) ==
  \/ \E password \in OncePasswords : Signup(s, EmailLower, password)
  \/ SignupSave(s)
  \/ SignupMail(s)
  \/ \E code \in RaceCodes : VerifyEmail(s, EmailLower, code)
  \/ VerifyEmailSave(s)
  \/ ResendVerification(s, EmailLower)
  \/ ResendVerificationSave(s)
  \/ ResendVerificationMail(s)
  \/ Finish(s)

NextResendRace == \E s \in Slots : ResendRaceRequest(s)

SpecResendRace == Init /\ [][NextResendRace]_vars

\* two callers record a failed login at once, each on the copy it read
LockRaceRequest(s) ==
  \/ \E password \in OncePasswords : Signup(s, EmailLower, password)
  \/ SignupSave(s)
  \/ SignupMail(s)
  \/ \E k \in Keys : LoadAndIncrement(s, k)
  \/ IncrementSave(s)
  \/ Finish(s)

NextLockRace == \E s \in Slots : LockRaceRequest(s)

SpecLockRace == Init /\ [][NextLockRace]_vars

\* the profile of one verified account: signup, verification and signin,
\* a reset request that leaves a pending code, and PUT /api/me with bodies
\* that name different sub-fields of the profile
ProfileBodies ==
  ProfileInputs \cup
    {[firstName |-> Undefined, lastName |-> <<"l">>, avatar |-> Undefined]}

ProfileRequest(s) ==
  \/ \E password \in OncePasswords : Signup(s, EmailLower, password)
  \/ SignupSave(s)
  \/ SignupMail(s)
  \/ \E code \in RaceCodes : VerifyEmail(s, EmailLower, code)
  \/ VerifyEmailSave(s)
  \/ \E password \in OncePasswords : Signin(s, EmailLower, password)
  \/ SigninSave(s)
  \/ ForgotPassword(s, EmailLower)
  \/ ForgotPasswordSave(s)
  \/ ForgotPasswordMail(s)
  \/ \E name \in NameInputs, profile \in ProfileBodies : UpdateMe(s, wallet, name, profile)
  \/ UpdateMeSave(s)
  \/ Finish(s)

NextProfile == Tick(MaxTime) \/ TTLExpire \/ ProfileRequest(1)

SpecProfile == Init /\ [][NextProfile]_vars

\* the protected routes called with every kind of token: the one the client
\* got from signin (which expires), none, one with a foreign signature, and
\* tokens signed with JWT_SECRET whose payload lacks the id or the email
NoIdToken ==
  [id |-> NoId, email |-> EmailLower, iat |-> 0, exp |-> MaxTime + 1, sig |-> JWT_SECRET]
NoEmailToken ==
  [id |-> 1, email |-> NoEmail, iat |-> 0, exp |-> MaxTime + 1, sig |-> JWT_SECRET]
Tokens == {wallet, NoToken, ForgedToken, NoIdToken, NoEmailToken}

ProtectedRequest(s) ==
  \/ \E password \in OncePasswords : Signup(s, EmailLower, password)
  \/ SignupSave(s)
  \/ SignupMail(s)
  \/ \E code \in RaceCodes : VerifyEmail(s, EmailLower, code)
  \/ VerifyEmailSave(s)
  \/ \E password \in OncePasswords : Signin(s, EmailLower, password)
  \/ SigninSave(s)
  \/ \E token \in Tokens : GetMe(s, token)
  \/ \E token \in Tokens, name \in NameInputs, profile \in ProfileInputs :
       UpdateMe(s, token, name, profile)
  \/ UpdateMeSave(s)
  \/ \E token \in Tokens : DeleteMe(s, token)
  \/ DeleteMeSave(s)
  \/ \E token \in Tokens : GetStats(s, token)
  \/ \E token \in Tokens : GetHealthDetailed(s, token)
  \/ Finish(s)

NextProtected == Tick(MaxTime) \/ TTLExpire \/ ProtectedRequest(1)

SpecProtected == Init /\ [][NextProtected]_vars

(***************************************************************************)
(* startServer: await initMailer, await connectDB, app.listen              *)
(***************************************************************************)
\* await initMailer(process.env): the configuration is valid and the
\* transporter verifies, or an error is caught; initMailer throws it again
\* in production only, and otherwise returns after a warning
InitMailer ==
  /\ boot.pc = "initMailer"
  /\ \E verified \in BOOLEAN :
       boot' = IF verified
                 THEN [boot EXCEPT !.pc = "connectDB", !.mailer = "ok",
                                   !.log = Append(@, "initMailer")]
               ELSE IF nodeEnv = "production"
                 THEN [boot EXCEPT !.pc = "catch", !.mailer = "failed"]
               ELSE [boot EXCEPT !.pc = "connectDB", !.mailer = "failed",
                                 !.log = Append(@, "initMailer")]
  /\ UNCHANGED <<nodeEnv, now, users, nextId, req, wallet, streak, streakAt, codeUse, track, hits>>

\* a failed connection after which startServer goes on to listen
ConnectDBGoesOn ==
  /\ boot.pc = "connectDB"
  /\ \E connected \in BOOLEAN :
       boot' = IF connected
                 THEN [boot EXCEPT !.pc = "listen", !.db = "connected",
                                   !.log = Append(@, "connectDB")]
                 ELSE [boot EXCEPT !.pc = "listen", !.db = "failed"]
  /\ UNCHANGED <<nodeEnv, now, users, nextId, req, wallet, streak, streakAt, codeUse, track, hits>>

\* await connectDB(process.env.MONGO_URI): mongoose connects, or the error
\* (no URI, a malformed one, no server within serverSelectionTimeoutMS) is
\* caught: in production connectDB exits itself, otherwise it throws to
\* the catch of startServer
ConnectDB ==
  /\ boot.pc = "connectDB"
  /\ \E connected \in BOOLEAN :
       boot' = IF connected
                 THEN [boot EXCEPT !.pc = "listen", !.db = "connected",
                                   !.log = Append(@, "connectDB")]
                 ELSE [boot EXCEPT !.pc = "catch", !.db = "failed"]
  /\ UNCHANGED <<nodeEnv, now, users, nextId, req, wallet, streak, streakAt, codeUse, track, hits>>

\* app.listen(PORT): the server accepts requests, or the port cannot be
\* bound and the uncaughtException handler takes the error
Listen ==
  /\ boot.pc = "listen"
  /\ \E bound \in BOOLEAN :
       boot' = IF bound
                 THEN [boot EXCEPT !.pc = "listening", !.log = Append(@, "listen")]
                 ELSE [boot EXCEPT !.pc = "catch"]
  /\ UNCHANGED <<nodeEnv, now, users, nextId, req, wallet, streak, streakAt, codeUse, track, hits>>

\* process.exit(1)
Exit ==
  /\ boot.pc = "catch"
  /\ boot' = [boot EXCEPT !.pc = "exited", !.exit = 1]
  /\ UNCHANGED <<nodeEnv, now, users, nextId, req, wallet, streak, streakAt, codeUse, track, hits>>

\* the requests of one client to the server once it listens
StartRequest(s) ==
  /\ boot.pc = "listening"
  /\ \/ \E password \in OncePasswords : Signup(s, EmailLower, password)
     \/ SignupSave(s)
     \/ SignupMail(s)
     \/ Logout(s)
     \/ Finish(s)

InitStart == boot = Starting /\ InitServer("none")

NextStart ==
  \/ InitMailer
  \/ ConnectDB
  \/ Listen
  \/ Exit
  \/ Tick(MaxTime)
  \/ StartRequest(1)

\* every await of startServer settles (the transporter and the driver have
\* timeouts) and the code after it runs
SpecStart ==
  /\ InitStart
  /\ [][NextStart]_vars
  /\ WF_vars(InitMailer) /\ WF_vars(ConnectDB) /\ WF_vars(Listen) /\ WF_vars(Exit)

(***************************************************************************)
(* The limited routes: app.use('/api/auth', authLimiter, authRoutes) and   *)
(* router.post(route, limiter, validateEmailInput, handler)                *)
(***************************************************************************)
\* the limiters' time, in units of 5 minutes
FiveMinutes == 3 * now + hits.sub

\* the memory store drops the keys whose window is over
clearExpired(window, date) ==
  IF window.resetTime <= date THEN NoWindow ELSE window

\* five minutes pass
TickFive ==
  /\ FiveMinutes < MaxFive
  /\ hits' = [hits EXCEPT
       !.sub = (@ + 1) % 3,
       !.authLimiter = clearExpired(@, FiveMinutes + 1),
       !.strictLimiter = clearExpired(@, FiveMinutes + 1),
       !.verificationLimiter = clearExpired(@, FiveMinutes + 1),
       !.sent = [l \in DOMAIN @ |-> clearExpired(@[l], FiveMinutes + 1)]]
  /\ now' = IF hits.sub = 2 THEN now + 1 ELSE now
  /\ UNCHANGED <<nodeEnv, users, nextId, req, wallet, streak, streakAt, codeUse, track, boot>>

\* limiters that let one request more than max through
LimiterAdmitsOneMore(s, route) ==
  /\ req[s].pc = "idle"
  /\ hits.pass[s] = "none"
  /\ LET limiter == LimiterOf(route)
         sent == increment(hits.sent[limiter], WindowMs(limiter), FiveMinutes)
         global == increment(hits.authLimiter, authWindowMs, FiveMinutes)
         class == increment(hits[limiter], WindowMs(limiter), FiveMinutes)
         seen == [hits EXCEPT !.sent[limiter] = sent]
     IN
     /\ sent.totalHits <= MaxHits
     /\ IF nodeEnv = "development"
          THEN /\ hits' = [seen EXCEPT !.pass[s] = route]
               /\ UNCHANGED req
        ELSE IF global.totalHits > authMax + 1
          THEN /\ hits' = [seen EXCEPT !.authLimiter = global]
               /\ req' = [req EXCEPT ![s] =
                    Done([IdleReq EXCEPT !.op = "authLimiter"],
                         Fail(429, TooMany("authLimiter")))]
        ELSE IF class.totalHits > Max(limiter) + 1
          THEN /\ hits' = [seen EXCEPT !.authLimiter = global, ![limiter] = class]
               /\ req' = [req EXCEPT ![s] =
                    Done([IdleReq EXCEPT !.op = limiter], Fail(429, TooMany(limiter)))]
        ELSE /\ hits' = [seen EXCEPT !.authLimiter = global, ![limiter] = class,
                                      !.pass[s] = route]
             /\ UNCHANGED req
  /\ UNCHANGED <<nodeEnv, now, users, nextId, wallet, streak, streakAt, codeUse, track, boot>>

\* authLimiter, then the limiter of the route: skipped in development;
\* otherwise the hit is counted and the request is answered 429 when the
\* count of the window exceeds max, and passed on (next()) when it does not.
\* hits.sent counts the requests of the client per limiter, skipped or not.
Limiter(s, route) ==
  /\ req[s].pc = "idle"
  /\ hits.pass[s] = "none"
  /\ LET limiter == LimiterOf(route)
         sent == increment(hits.sent[limiter], WindowMs(limiter), FiveMinutes)
         global == increment(hits.authLimiter, authWindowMs, FiveMinutes)
         class == increment(hits[limiter], WindowMs(limiter), FiveMinutes)
         seen == [hits EXCEPT !.sent[limiter] = sent]
     IN
     /\ sent.totalHits <= MaxHits
     /\ IF nodeEnv = "development"
          THEN /\ hits' = [seen EXCEPT !.pass[s] = route]
               /\ UNCHANGED req
        ELSE IF global.totalHits > authMax
          THEN /\ hits' = [seen EXCEPT !.authLimiter = global]
               /\ req' = [req EXCEPT ![s] =
                    Done([IdleReq EXCEPT !.op = "authLimiter"],
                         Fail(429, TooMany("authLimiter")))]
        ELSE IF class.totalHits > Max(limiter)
          THEN /\ hits' = [seen EXCEPT !.authLimiter = global, ![limiter] = class]
               /\ req' = [req EXCEPT ![s] =
                    Done([IdleReq EXCEPT !.op = limiter], Fail(429, TooMany(limiter)))]
        ELSE /\ hits' = [seen EXCEPT !.authLimiter = global, ![limiter] = class,
                                      !.pass[s] = route]
             /\ UNCHANGED req
  /\ UNCHANGED <<nodeEnv, now, users, nextId, wallet, streak, streakAt, codeUse, track, boot>>

\* validateEmailInput: the response of the middleware, or NoResp for next()
validateEmailInput(email) ==
  IF email = <<>> THEN Fail(400, "Email is required")
  ELSE IF ~ isValidEmail(email) THEN Fail(400, "Please provide a valid email address")
  ELSE NoResp

\* the request the limiters passed on is answered by validateEmailInput
ValidateEmailInput(s, email) ==
  /\ req[s].pc = "idle"
  /\ hits.pass[s] # "none"
  /\ validateEmailInput(email) # NoResp
  /\ req' = [req EXCEPT ![s] =
       Done([IdleReq EXCEPT !.op = "validateEmailInput", !.email = email],
            validateEmailInput(email))]
  /\ UNCHANGED <<nodeEnv, now, users, nextId, wallet, streak, streakAt, codeUse, track, hits, boot>>

\* the client reads the response of a limited route
RateFinish(s) ==
  /\ req[s].pc = "done"
  /\ req' = [req EXCEPT ![s] = IdleReq]
  /\ hits' = [hits EXCEPT !.pass[s] = "none"]
  /\ UNCHANGED <<nodeEnv, now, users, nextId, wallet, streak, streakAt, codeUse, track, boot>>

\* one client on the six limited routes
RateEmails == {EmailLower, <<>>}
RatePasswords == {PassOne}
RateCodes == {<<"0">>}

\* the handler of a route runs for the request its middleware passed on
Handler(s, route) ==
  /\ hits.pass[s] = route
  /\ \E email \in RateEmails, password \in RatePasswords, code \in RateCodes :
       /\ validateEmailInput(email) = NoResp
       /\ \/ route = "signup" /\ Signup(s, email, password)
          \/ route = "verifyEmail" /\ VerifyEmail(s, email, code)
          \/ route = "signin" /\ Signin(s, email, password)
          \/ route = "resendVerification" /\ ResendVerification(s, email)
          \/ route = "forgotPassword" /\ ForgotPassword(s, email)
          \/ route = "resetPassword" /\ ResetPassword(s, email, code, password)

RateRequest(s) ==
  \/ \E route \in Routes : Limiter(s, route)
  \/ \E email \in RateEmails : ValidateEmailInput(s, email)
  \/ \E route \in Routes : Handler(s, route)
  \/ SignupSave(s)
  \/ SignupMail(s)
  \/ VerifyEmailSave(s)
  \/ SigninSave(s)
  \/ ResendVerificationSave(s)
  \/ ResendVerificationMail(s)
  \/ ForgotPasswordSave(s)
  \/ ForgotPasswordMail(s)
  \/ ResetPasswordSave(s)
  \/ RateFinish(s)

NextRate == TickFive \/ RateRequest(1)

SpecRate == Init /\ [][NextRate]_vars

(***************************************************************************)
(* Concurrent requests                                                     *)
(***************************************************************************)
\* the request in slot s was answered
Answered(s, op) == req[s].op = op /\ req[s].pc = "done"

\* the requests in slots s and t passed every check of the handler on the
\* same stored document
SameDocument(s, t) ==
  /\ s # t
  /\ req[s].user # NoUser
  /\ req[s].user = req[t].user

\* C1: two concurrent signups with the same normalized e-mail, both started
\* when no account had it: the one that stored the account is answered 201,
\* the other one gets 409 'An account with this email already exists', and
\* the one account stored is the winner's.
SignupRaceOneConflict ==
  \A s, t \in Slots :
    ( /\ s # t
      /\ Answered(s, "signup") /\ Answered(t, "signup")
      /\ req[s].user # NoUser /\ req[t].user # NoUser
      /\ req[s].user.email = req[t].user.email
      /\ users[req[s].user.email] # NoUser
      /\ users[req[s].user.email].id = req[s].user.id
      /\ req[s].resp.status = 201 )
    => /\ req[t].resp = Fail(409, "An account with this email already exists")
       /\ users[req[t].user.email].id # req[t].user.id

\* C2: two concurrent verifyEmail requests with the same correct, unexpired
\* code for the same unverified account: exactly one of them succeeds.
VerifyRaceOneSuccess ==
  \A s, t \in Slots :
    ( /\ Answered(s, "verifyEmail") /\ Answered(t, "verifyEmail")
      /\ SameDocument(s, t) )
    => \/ req[s].resp.status = 200 /\ req[t].resp.status # 200
       \/ req[s].resp.status # 200 /\ req[t].resp.status = 200

\* C3: two concurrent resetPassword requests with the same correct, unexpired
\* reset code for the same account: exactly one of them succeeds, and the
\* stored passwordHash is the hash of that request's new password.
ResetRaceOneSuccess ==
  \A s, t \in Slots :
    ( /\ Answered(s, "resetPassword") /\ Answered(t, "resetPassword")
      /\ SameDocument(s, t) )
    => \/ /\ req[s].resp.status = 200 /\ req[t].resp.status # 200
          /\ bcryptCompare(req[s].password, users[req[s].user.email].passwordHash)
       \/ /\ req[s].resp.status # 200 /\ req[t].resp.status = 200
          /\ bcryptCompare(req[t].password, users[req[t].user.email].passwordHash)

(***************************************************************************)
(* Steps of a request, as action formulas                                  *)
(***************************************************************************)
\* the request op starts in slot s with this step
Starts(s, op) == req[s].pc = "idle" /\ req'[s].op = op

\* the request passes the checks of its handler and goes on to save
Accepted(s, op) == Starts(s, op) /\ req'[s].pc = "save"

\* the request is refused by its handler without a save
Refused(s, op) == Starts(s, op) /\ req'[s].pc = "done" /\ req'[s].resp.status >= 400

\* the save of the request succeeds and its success response is sent
Succeeds(s, op) ==
  /\ req[s].op = op
  /\ req[s].pc = "save"
  /\ req'[s].pc = "done"
  /\ req'[s].resp.status = 200

\* the account the request in slot s (after the step) is about
KeyOf(s) == normalizeEmail(req'[s].email)

(***************************************************************************)
(* Account lock                                                            *)
(***************************************************************************)
\* C4: after 5 consecutive wrong-password signins on a verified account, a
\* signin with the correct password made before the 30-minute lock window has
\* elapsed is refused (Locked) and signs no token.
LockedAfterFiveFailures ==
  [][\A s \in Slots :
       ( /\ Starts(s, "signin")
         /\ isValidEmail(req'[s].email)
         /\ users[KeyOf(s)] # NoUser
         /\ users[KeyOf(s)].emailVerified
         /\ bcryptCompare(req'[s].password, users[KeyOf(s)].passwordHash)
         /\ streak[KeyOf(s)] = maxAttempts
         /\ now < streakAt[KeyOf(s)] + lockTime )
       => /\ Refused(s, "signin")
          /\ req'[s].resp.status = 403
          /\ req'[s].token = NoToken]_vars

(***************************************************************************)
(* One-time codes                                                          *)
(***************************************************************************)
\* the parts of C5 that do not depend on which code was used before: a
\* verified account refuses every verifyEmail, a successful verifyEmail
\* verifies and clears the pending code, emailVerified stays true, and a code
\* is accepted only when it is the stored pending code and not expired
SingleUseFrame(s) ==
  /\ ( Starts(s, "verifyEmail") /\ isValidEmail(req'[s].email)
       /\ users[KeyOf(s)] # NoUser /\ users[KeyOf(s)].emailVerified )
     => Refused(s, "verifyEmail")
  /\ Succeeds(s, "verifyEmail")
     => /\ users'[KeyOf(s)].emailVerified
        /\ users'[KeyOf(s)].emailVerification = NoCode
  /\ Succeeds(s, "resetPassword")
     => users'[KeyOf(s)].passwordReset = NoCode
  /\ \A k \in Keys :
       ( /\ users[k] # NoUser /\ users'[k] # NoUser
         /\ users[k].id = users'[k].id
         /\ users[k].emailVerified )
       => users'[k].emailVerified
  /\ Accepted(s, "verifyEmail")
     => /\ users[KeyOf(s)].emailVerification # NoCode
        /\ users[KeyOf(s)].emailVerification.codeHash = hashCode(trim(req'[s].code))
        /\ now <= users[KeyOf(s)].emailVerification.expiresAt
  /\ Accepted(s, "resetPassword")
     => /\ users[KeyOf(s)].passwordReset # NoCode
        /\ users[KeyOf(s)].passwordReset.codeHash = hashCode(trim(req'[s].code))
        /\ now <= users[KeyOf(s)].passwordReset.expiresAt

\* C5 as stated: in a sequential run a code is accepted at most once, so a
\* resetPassword succeeds only with a code no earlier resetPassword of the
\* account succeeded with; a verified account refuses every verifyEmail; no
\* code is accepted after its expiresAt.
CodeAcceptedAtMostOnce ==
  [][\A s \in Slots :
       /\ Succeeds(s, "resetPassword")
          => codeUse[KeyOf(s)][req[s].user.passwordReset.codeHash] = "unused"
       /\ SingleUseFrame(s)]_vars

\* C5 amended: a code is accepted at most once per issue. A resetPassword
\* never succeeds with a code that an earlier resetPassword succeeded with,
\* unless forgotPassword has issued the same digits again since; a verified
\* account refuses every verifyEmail; no code is accepted after its expiresAt.
CodeAcceptedOncePerIssue ==
  [][\A s \in Slots :
       /\ Succeeds(s, "resetPassword")
          => codeUse[KeyOf(s)][req[s].user.passwordReset.codeHash] # "spent"
       /\ SingleUseFrame(s)]_vars

\* a resetPassword presenting a code that was already used is refused
ReplayRefused ==
  \E s \in Slots :
    /\ Answered(s, "resetPassword")
    /\ req[s].resp = Fail(400, "Invalid reset request")
    /\ isValidEmail(req[s].email)
    /\ hashCode(trim(req[s].code)) \in Digests
    /\ codeUse[normalizeEmail(req[s].email)][hashCode(trim(req[s].code))] = "spent"

(***************************************************************************)
(* Password reset                                                          *)
(***************************************************************************)
\* C6: right after a successful resetPassword with new password P2, a signin
\* with any other password gets the invalid-credentials response and a signin
\* with P2 passes the password check (it goes on to sign a token, or is told
\* to verify the e-mail first).
ResetReplacesPassword ==
  [][\A s \in Slots :
       Succeeds(s, "resetPassword")
       => \A p \in PasswordInputs :
            IF p = req[s].password
              THEN signin(req[s].email, p)'.resp # Fail(401, "Invalid email or password")
              ELSE signin(req[s].email, p)'.resp = Fail(401, "Invalid email or password")]_vars

\* a reset succeeded on an account whose password was another one
PasswordWasReplaced ==
  \E s \in Slots :
    /\ Answered(s, "resetPassword")
    /\ req[s].resp.status = 200
    /\ ~ bcryptCompare(req[s].password, req[s].user.passwordHash)
    /\ users[req[s].user.email] # NoUser
    /\ bcryptCompare(req[s].password, users[req[s].user.email].passwordHash)

(***************************************************************************)
(* Enumeration safety and normalization                                    *)
(***************************************************************************)
\* C7: forgotPassword answers every well-formed e-mail with the same 200
\* response, whether the account exists or not and whether the delivery of
\* the reset code worked or not.
ForgotResponseUniform ==
  \A s \in Slots :
    (Answered(s, "forgotPassword") /\ isValidEmail(req[s].email))
    => req[s].resp = Reply(200, successMessage)

\* C8: a signup with a policy-conforming password and an e-mail spelling that
\* normalizes to the e-mail of a stored account is answered Conflict (409) and
\* creates no account.
NormalizedDuplicateConflict ==
  [][\A s \in Slots :
       ( /\ Starts(s, "signup")
         /\ validatePassword(req'[s].password).isValid
         /\ KeyOf(s) \in Keys
         /\ users[KeyOf(s)] # NoUser )
       => /\ req'[s].pc = "done"
          /\ req'[s].resp = Fail(409, "An account with this email already exists")
          /\ users' = users]_vars

(***************************************************************************)
(* The signup, verify, signin scenario                                     *)
(***************************************************************************)
\* no pending code of the document can have expired: the store keeps it
NothingPending(user) ==
  user.emailVerification = NoCode /\ user.passwordReset = NoCode

\* C9: the steps of signup(e, p), verifyEmail(e, wrong code),
\* verifyEmail(e, issued code) before expiry, signin(e, p). The signup stores
\* an unverified account with the digest of the issued code pending; a wrong
\* code on an unverified account with an unexpired pending code is refused
\* and changes nothing; the pending code, presented before its expiry, is
\* accepted and its save verifies the account; a signin with the password of
\* a verified account signs a token, which the response carries.
ScenarioSteps ==
  [][\A s \in Slots :
       /\ ( /\ req[s].op = "signup" /\ req[s].pc = "save" /\ req'[s].pc = "mail"
            /\ now <= req[s].user.emailVerification.expiresAt )
          => LET user == users'[KeyOf(s)]
             IN  /\ user # NoUser
                 /\ user.email = normalizeEmail(req[s].email)
                 /\ ~ user.emailVerified
                 /\ user.emailVerification =
                      [codeHash |-> hashCode(req[s].plain),
                       expiresAt |-> user.emailVerification.expiresAt]
                 /\ user.emailVerification.expiresAt >= now
                 /\ user.passwordReset = NoCode
                 /\ bcryptCompare(req[s].password, user.passwordHash)
       /\ ( /\ Starts(s, "verifyEmail") /\ isValidEmail(req'[s].email)
            /\ users[KeyOf(s)] # NoUser
            /\ ~ users[KeyOf(s)].emailVerified
            /\ users[KeyOf(s)].emailVerification # NoCode
            /\ now <= users[KeyOf(s)].emailVerification.expiresAt )
          => IF hashCode(trim(req'[s].code)) = users[KeyOf(s)].emailVerification.codeHash
               THEN Accepted(s, "verifyEmail")
               ELSE Refused(s, "verifyEmail") /\ users' = users
       /\ ( /\ req[s].op = "verifyEmail" /\ req[s].pc = "save" /\ req'[s].pc = "done"
            /\ req[s].user.passwordReset = NoCode
            /\ now <= req[s].user.emailVerification.expiresAt )
          => /\ req'[s].resp.status = 200
             /\ users'[KeyOf(s)].emailVerified
             /\ NothingPending(users'[KeyOf(s)])
       /\ ( /\ Starts(s, "signin") /\ isValidEmail(req'[s].email)
            /\ users[KeyOf(s)] # NoUser
            /\ users[KeyOf(s)].emailVerified
            /\ bcryptCompare(req'[s].password, users[KeyOf(s)].passwordHash) )
          => Accepted(s, "signin") /\ req'[s].token # NoToken
       /\ ( /\ req[s].op = "signin" /\ req[s].pc = "save" /\ req'[s].pc = "done"
            /\ NothingPending(req[s].user) )
          => /\ req'[s].resp.status = 200
             /\ req'[s].resp.token = req[s].token
             /\ req'[s].resp.token # NoToken]_vars

\* the scenario's end: a signin was answered with a token for an account
\* that signup created and verifyEmail verified
TokenIssued ==
  \E s \in Slots :
    /\ Answered(s, "signin")
    /\ req[s].resp.status = 200
    /\ req[s].resp.token # NoToken
    /\ nodeEnv = "production"

(***************************************************************************)
(* Token round trip                                                        *)
(***************************************************************************)
\* C10: the token signin hands out carries the id and e-mail of the account
\* and expires JWT_EXPIRES_IN after it was signed; presented to the
\* authentication middleware before its expiry it yields that id and e-mail,
\* from its expiry on it is rejected as expired.
TokenRoundTrip ==
  [][\A s \in Slots :
       /\ Succeeds(s, "signin")
          => /\ wallet' = req'[s].resp.token
             /\ wallet'.id = req[s].user.id
             /\ wallet'.email = req[s].user.email
             /\ wallet'.id = req'[s].resp.user.id
             /\ wallet'.email = req'[s].resp.user.email
             /\ wallet'.exp = wallet'.iat + JWT_EXPIRES_IN
             /\ wallet'.iat <= now
       /\ ( Starts(s, "getMe") /\ wallet # NoToken /\ req'[s].token = wallet )
          => IF now < wallet.exp
               THEN req'[s].auth = [id |-> wallet.id, email |-> wallet.email]
               ELSE /\ req'[s].auth = NoUser
                    /\ req'[s].resp = Fail(401, "Your session has expired. Please sign in again.")]_vars

\* the token of a signin was presented after its expiry and rejected
ExpiredTokenRejected ==
  \E s \in Slots :
    /\ Answered(s, "getMe")
    /\ req[s].token = wallet
    /\ wallet # NoToken
    /\ now >= wallet.exp
    /\ req[s].resp = Fail(401, "Your session has expired. Please sign in again.")

(***************************************************************************)
(* The verified flag                                                       *)
(***************************************************************************)
\* C11: an account starts with emailVerified false when signup stores it,
\* and no step of any operation sets emailVerified of a stored account back
\* from true to false.
VerifiedNeverReverts ==
  [][\A k \in Keys :
       /\ ( /\ users[k] # NoUser /\ users'[k] # NoUser
            /\ users[k].id = users'[k].id
            /\ users[k].emailVerified )
          => users'[k].emailVerified
       /\ ( /\ users'[k] # NoUser
            /\ (users[k] = NoUser \/ users[k].id # users'[k].id) )
          => ~ users'[k].emailVerified]_vars

\* a verified account was deactivated and is still verified
VerifiedSurvivesDeactivate ==
  \E s \in Slots :
    /\ Answered(s, "deleteMe")
    /\ req[s].resp.status = 200
    /\ req[s].user.emailVerified
    /\ users[req[s].user.email] # NoUser
    /\ users[req[s].user.email].id = req[s].user.id
    /\ users[req[s].user.email].emailVerified
    /\ ~ users[req[s].user.email].isActive

(***************************************************************************)
(* Signin                                                                  *)
(***************************************************************************)
\* C12: when signin signs a token, the account with the normalized e-mail
\* is stored, the submitted password matches its passwordHash and its
\* emailVerified is true; only a signin response carries a token; an
\* unverified account with the correct password is answered 403 'Please
\* verify your email before signing in' and no token is signed.
TokenOnlyForVerifiedOwner ==
  [][\A s \in Slots :
       /\ ( Starts(s, "signin") /\ req'[s].token # NoToken )
          => LET user == findOne(KeyOf(s))
             IN  /\ user # NoUser
                 /\ req'[s].user = user
                 /\ bcryptCompare(req'[s].password, user.passwordHash)
                 /\ user.emailVerified
                 /\ req'[s].token.id = user.id
                 /\ req'[s].token.email = user.email
       /\ ( req[s].pc # "done" /\ req'[s].pc = "done" /\ req'[s].resp.token # NoToken )
          => /\ req[s].op = "signin" /\ req[s].pc = "save"
             /\ req'[s].resp.token = req[s].token
             /\ req[s].user.emailVerified
             /\ bcryptCompare(req[s].password, req[s].user.passwordHash)
       /\ ( /\ Starts(s, "signin") /\ isValidEmail(req'[s].email)
            /\ findOne(KeyOf(s)) # NoUser
            /\ ~ findOne(KeyOf(s)).emailVerified
            /\ bcryptCompare(req'[s].password, findOne(KeyOf(s)).passwordHash) )
          => /\ req'[s].pc = "done"
             /\ req'[s].resp = Fail(403, "Please verify your email before signing in")
             /\ req'[s].token = NoToken]_vars

\* an unverified account presented its correct password and was refused
UnverifiedRefused ==
  \E s \in Slots :
    /\ Answered(s, "signin")
    /\ req[s].resp = Fail(403, "Please verify your email before signing in")
    /\ findOne(normalizeEmail(req[s].email)) # NoUser
    /\ bcryptCompare(req[s].password, findOne(normalizeEmail(req[s].email)).passwordHash)

\* C15: signin answers 401 'Invalid email or password' both when no account
\* has the e-mail and when the account exists but the password does not
\* match, whatever the state of the account.
SigninResponseGeneric ==
  [][\A s \in Slots :
       ( /\ Starts(s, "signin") /\ isValidEmail(req'[s].email)
         /\ req'[s].password # <<>>
         /\ \/ findOne(KeyOf(s)) = NoUser
            \/ ~ bcryptCompare(req'[s].password, findOne(KeyOf(s)).passwordHash) )
       => /\ req'[s].pc = "done"
          /\ req'[s].resp = Fail(401, "Invalid email or password")
          /\ req'[s].token = NoToken]_vars

\* a wrong password for a locked account was answered like an absent account
LockedMismatchGeneric ==
  \E s \in Slots :
    /\ Answered(s, "signin")
    /\ isValidEmail(req[s].email)
    /\ findOne(normalizeEmail(req[s].email)) # NoUser
    /\ isLocked(findOne(normalizeEmail(req[s].email)), now)
    /\ ~ bcryptCompare(req[s].password, findOne(normalizeEmail(req[s].email)).passwordHash)
    /\ req[s].resp = Fail(401, "Invalid email or password")

(***************************************************************************)
(* Deactivated accounts                                                    *)
(***************************************************************************)
\* C13: a signin for the e-mail of a deactivated account is answered like a
\* signin for an e-mail without account, 401 'Invalid email or password',
\* whatever the password, and signs no token.
DeactivatedSigninRefused ==
  [][\A s \in Slots :
       ( /\ Starts(s, "signin") /\ isValidEmail(req'[s].email)
         /\ req'[s].password # <<>>
         /\ findOne(KeyOf(s)) # NoUser
         /\ ~ findOne(KeyOf(s)).isActive )
       => /\ req'[s].pc = "done"
          /\ req'[s].resp = Fail(401, "Invalid email or password")
          /\ req'[s].token = NoToken]_vars

\* C14: get profile, update profile, deactivate and account stats, presented
\* with an unexpired token of a deactivated account, are answered 403 and
\* change no account.
DeactivatedTokenForbidden ==
  [][\A s \in Slots :
       ( /\ req[s].pc = "idle"
         /\ req'[s].op \in {"getMe", "updateMe", "deleteMe", "getStats"}
         /\ wallet # NoToken
         /\ req'[s].token = wallet
         /\ now < wallet.exp
         /\ findById(wallet.id) # NoUser
         /\ ~ findById(wallet.id).isActive )
       => /\ req'[s].pc = "done"
          /\ req'[s].resp.status = 403
          /\ users' = users]_vars

(***************************************************************************)
(* Locked accounts and the public view                                     *)
(***************************************************************************)
\* C16: a signin for an account whose lockUntil is in the future is refused
\* as locked (403), whether the password is correct or not, and signs no
\* token.
LockedSigninRefused ==
  [][\A s \in Slots :
       ( /\ Starts(s, "signin") /\ isValidEmail(req'[s].email)
         /\ req'[s].password # <<>>
         /\ findOne(KeyOf(s)) # NoUser
         /\ findOne(KeyOf(s)).lockUntil # NoDate
         /\ findOne(KeyOf(s)).lockUntil > now )
       => /\ req'[s].pc = "done"
          /\ req'[s].resp.status = 403
          /\ req'[s].token = NoToken]_vars

\* the paths of an account that its public view must not show
Sensitive ==
  {"passwordHash", "emailVerification", "passwordReset", "codeHash",
   "loginAttempts", "accountLocked", "lockUntil", "isLocked"}

\* C17: no response carries, in its user object or its stats, the
\* passwordHash, a pending code, the failed-login counter or the lock state
\* of the account.
ResponsesHideSensitive ==
  \A s \in Slots :
    req[s].pc = "done"
    => /\ DOMAIN req[s].resp.user \cap Sensitive = {}
       /\ DOMAIN req[s].resp.stats \cap Sensitive = {}

(***************************************************************************)
(* Signup and the delivery of the code                                     *)
(***************************************************************************)
\* the signup in slot s is answered after the delivery of its code failed
DeliveryFails(s) ==
  /\ req[s].op = "signup"
  /\ req[s].pc = "mail"
  /\ req'[s].pc = "done"
  /\ req'[s].resp # Reply(201, "Account created successfully. Please check your email for verification code.")

\* C18: when the delivery of the verification code of a signup fails, the
\* response changes no account, and the account the signup stored is still
\* there (as long as its code has not expired), unverified, with the digest
\* of the issued code pending, in production (500) and outside (201).
DeliveryFailureKeepsAccount ==
  [][\A s \in Slots :
       DeliveryFails(s)
       => /\ users' = users
          /\ req'[s].resp.status = IF nodeEnv = "production" THEN 500 ELSE 201
          /\ now <= req[s].user.emailVerification.expiresAt
             => LET user == users'[req[s].user.email]
                IN  /\ user # NoUser
                    /\ user.id = req[s].user.id
                    /\ ~ user.emailVerified
                    /\ user.emailVerification # NoCode
                    /\ user.emailVerification.codeHash = hashCode(req[s].plain)]_vars

\* a signup in production was answered 500 and its account is stored
AccountStoredAfterFailure ==
  \E s \in Slots :
    /\ Answered(s, "signup")
    /\ nodeEnv = "production"
    /\ req[s].resp = Fail(500, "Account created but failed to send verification email. Please contact support.")
    /\ users[req[s].user.email] # NoUser
    /\ users[req[s].user.email].id = req[s].user.id
    /\ ~ users[req[s].user.email].emailVerified
    /\ users[req[s].user.email].emailVerification # NoCode

\* C19: a signup response never carries a user object, a token or a password
\* hash; it carries the issued code only outside production and only when
\* the delivery failed, and in production it carries no code.
SignupResponseHidesCode ==
  [][\A s \in Slots :
       ( req'[s].op = "signup" /\ req[s].pc # "done" /\ req'[s].pc = "done" )
       => /\ req'[s].resp.user = NoUser
          /\ req'[s].resp.token = NoToken
          /\ req'[s].resp.stats = NoUser
          /\ nodeEnv = "production" => req'[s].resp.devVerificationCode = <<>>
          /\ req'[s].resp.devVerificationCode # <<>>
             => /\ nodeEnv # "production"
                /\ DeliveryFails(s)
                /\ req'[s].resp.devVerificationCode = req[s].plain]_vars

\* outside production a signup whose delivery failed returned its code
DevCodeReturned ==
  \E s \in Slots :
    /\ Answered(s, "signup")
    /\ nodeEnv # "production"
    /\ req[s].resp.status = 201
    /\ req[s].resp.devVerificationCode # <<>>
    /\ users[req[s].user.email] # NoUser
    /\ users[req[s].user.email].emailVerification # NoCode
    /\ users[req[s].user.email].emailVerification.codeHash = hashCode(req[s].resp.devVerificationCode)

(***************************************************************************)
(* resendVerification                                                      *)
(***************************************************************************)
\* the parts of C20 that do not compare the new code with the previous one:
\* without account the answer is 404 and for a verified account 400, both
\* without a change; otherwise the save replaces the pending code by a code
\* issued by this request, which expires CODE_EXPIRES_MIN after it was
\* issued (a save that comes after that expiry stores no code, the pre-save
\* hook clears it); and verifyEmail, for an unverified account with an unexpired
\* pending code, accepts exactly the codes whose digest is the stored one.
ResendFrame(s) ==
  /\ ( /\ Starts(s, "resendVerification") /\ isValidEmail(req'[s].email)
       /\ findOne(KeyOf(s)) = NoUser )
     => /\ req'[s].pc = "done"
        /\ req'[s].resp = Fail(404, "No account found with this email address")
        /\ users' = users
  /\ ( /\ Starts(s, "resendVerification") /\ isValidEmail(req'[s].email)
       /\ findOne(KeyOf(s)) # NoUser
       /\ findOne(KeyOf(s)).emailVerified )
     => /\ req'[s].pc = "done"
        /\ req'[s].resp = Fail(400, "Email is already verified")
        /\ users' = users
  /\ ( /\ Starts(s, "resendVerification") /\ isValidEmail(req'[s].email)
       /\ findOne(KeyOf(s)) # NoUser
       /\ ~ findOne(KeyOf(s)).emailVerified )
     => /\ req'[s].pc = "save"
        /\ req'[s].upd.emailVerification.codeHash \in Digests
        /\ req'[s].upd.emailVerification.expiresAt = now + CODE_EXPIRES_MIN
  /\ ( /\ req[s].op = "resendVerification" /\ req[s].pc = "save"
       /\ req'[s].pc = "mail"
       /\ now <= req[s].upd.emailVerification.expiresAt )
     => /\ users'[KeyOf(s)] # NoUser
        /\ users'[KeyOf(s)].emailVerification = req[s].upd.emailVerification
        /\ ~ users'[KeyOf(s)].emailVerified
  /\ ( /\ Starts(s, "verifyEmail") /\ isValidEmail(req'[s].email)
       /\ findOne(KeyOf(s)) # NoUser
       /\ ~ findOne(KeyOf(s)).emailVerified
       /\ findOne(KeyOf(s)).emailVerification # NoCode
       /\ now <= findOne(KeyOf(s)).emailVerification.expiresAt )
     => IF hashCode(trim(req'[s].code)) = findOne(KeyOf(s)).emailVerification.codeHash
          THEN Accepted(s, "verifyEmail")
          ELSE Refused(s, "verifyEmail") /\ users' = users

\* C20 as stated: resendVerification fails without account (404) and for a
\* verified account, changing nothing; otherwise it replaces the pending
\* code, so that the previously issued code is no longer the stored one (and
\* verifyEmail rejects it) and the new code is accepted until its expiry.
ResendInvalidatesPrevious ==
  [][\A s \in Slots :
       /\ ResendFrame(s)
       /\ ( /\ req[s].op = "resendVerification" /\ req[s].pc = "save"
            /\ req'[s].pc = "mail"
            /\ req[s].user.emailVerification # NoCode )
          => users'[KeyOf(s)].emailVerification.codeHash
               # req[s].user.emailVerification.codeHash]_vars

\* C20 amended: the same, except that the previously issued code is rejected
\* afterwards only when the new code has other digits: verifyEmail accepts
\* exactly the codes whose digest is the stored one, and the stored one is
\* the one this request issued.
ResendReplacesCode ==
  [][\A s \in Slots : ResendFrame(s)]_vars

\* a resend replaced a pending code by a code with other digits
PendingCodeReplaced ==
  \E s \in Slots :
    /\ Answered(s, "resendVerification")
    /\ req[s].resp.status = 200
    /\ req[s].user.emailVerification # NoCode
    /\ users[req[s].user.email] # NoUser
    /\ users[req[s].user.email].id = req[s].user.id
    /\ users[req[s].user.email].emailVerification # NoCode
    /\ users[req[s].user.email].emailVerification.codeHash
         # req[s].user.emailVerification.codeHash

(***************************************************************************)
(* E-mail verification                                                     *)
(***************************************************************************)
\* the conditions under which a verification is said to succeed: an account
\* with the normalized e-mail exists, is not verified, has a pending code
\* that has not expired, and the digest of the submitted code (trimmed, as
\* the handler does) is the stored one
VerifyConditions(email, code) ==
  LET user == findOne(normalizeEmail(email)) IN
    /\ user # NoUser
    /\ ~ user.emailVerified
    /\ user.emailVerification # NoCode
    /\ now <= user.emailVerification.expiresAt
    /\ hashCode(trim(code)) = user.emailVerification.codeHash

\* a successful verification leaves the account verified, without a pending
\* e-mail code
VerifiedAndCleared(s) ==
  Succeeds(s, "verifyEmail")
    => /\ users'[req[s].user.email].emailVerified
       /\ users'[req[s].user.email].emailVerification = NoCode

\* C21 as stated: verifyEmail passes its checks exactly when the account with
\* the normalized e-mail exists, is unverified and has a pending, unexpired
\* code whose digest is that of the submitted code; when it succeeds the
\* account is verified and has no pending e-mail code.
VerifySucceedsExactlyWhen ==
  [][\A s \in Slots :
       /\ Starts(s, "verifyEmail")
            => (Accepted(s, "verifyEmail")
                  <=> VerifyConditions(req'[s].email, req'[s].code))
       /\ VerifiedAndCleared(s)]_vars

\* C21 for the e-mail spellings the handler takes as well-formed: the same
VerifyWellFormedExactlyWhen ==
  [][\A s \in Slots :
       /\ (Starts(s, "verifyEmail") /\ isValidEmail(req'[s].email))
            => (Accepted(s, "verifyEmail")
                  <=> VerifyConditions(req'[s].email, req'[s].code))
       /\ VerifiedAndCleared(s)]_vars

\* a verification of an account whose pending code matches was answered with
\* success
EmailVerifiedByCode ==
  \E s \in Slots :
    /\ Answered(s, "verifyEmail")
    /\ req[s].resp.status = 200
    /\ users[req[s].user.email] # NoUser
    /\ users[req[s].user.email].emailVerified

\* the response with which exports.verifyEmail refuses a request before any
\* write, or NoResp when the request passes every check
verifyEmailRefusal(email, code) ==
  LET user == findOne(normalizeEmail(email)) IN
    IF email = <<>> \/ code = <<>>
      THEN Fail(400, "Email and verification code are required")
    ELSE IF ~ isValidEmail(email)
      THEN Fail(400, "Please provide a valid email address")
    ELSE IF user = NoUser
      THEN Fail(400, "Invalid email or verification code")
    ELSE IF user.emailVerified
      THEN Fail(400, "Email is already verified")
    ELSE IF user.emailVerification = NoCode
      THEN Fail(400, "No verification code found. Please request a new one.")
    ELSE IF now > user.emailVerification.expiresAt
      THEN Fail(400, "Verification code has expired. Please request a new one.")
    ELSE IF hashCode(trim(code)) # user.emailVerification.codeHash
      THEN Fail(400, "Invalid verification code")
    ELSE NoResp

\* C22: every failing verifyEmail call (unknown e-mail, already verified, no
\* pending code, expired code, wrong code, or a failed save) leaves every
\* field of every account unchanged, and the same call made again in the
\* state it leaves is refused with the same failure.
VerifyFailureChangesNothing ==
  [][\A s \in Slots :
       /\ ( /\ req'[s].op = "verifyEmail"
            /\ req[s].pc # "done"
            /\ req'[s].pc = "done"
            /\ req'[s].resp.status >= 400 )
          => users' = users
       /\ \A email \in EmailInputs, code \in CodeInputs :
            ( /\ Refused(s, "verifyEmail")
              /\ req'[s].email = email
              /\ req'[s].code = code )
            => /\ req'[s].resp = verifyEmailRefusal(email, code)
               /\ req'[s].resp = verifyEmailRefusal(email, code)']_vars

\* a verification with a wrong code was refused and the code is still pending
WrongCodeRefused ==
  \E s \in Slots :
    /\ Answered(s, "verifyEmail")
    /\ req[s].resp.error = "Invalid verification code"
    /\ findOne(normalizeEmail(req[s].email)) # NoUser
    /\ findOne(normalizeEmail(req[s].email)).emailVerification # NoCode
    /\ ~ findOne(normalizeEmail(req[s].email)).emailVerified

(***************************************************************************)
(* Logout                                                                  *)
(***************************************************************************)
\* C23: logout answers 200 and changes no account; the token the client
\* holds is accepted by authMiddleware after the logout exactly as before
\* it, that is, until its own expiry.
LogoutChangesNothing ==
  [][\A s \in Slots :
       /\ Starts(s, "logout")
          => /\ req'[s].pc = "done"
             /\ req'[s].resp = Reply(200, "Logged out successfully")
             /\ users' = users
             /\ wallet' = wallet
             /\ wallet # NoToken
                  => /\ authMiddleware(wallet, now)' = authMiddleware(wallet, now)
                     /\ now < wallet.exp => authMiddleware(wallet, now)' = NoResp
       /\ ( /\ Starts(s, "getMe")
            /\ wallet # NoToken
            /\ req'[s].token = wallet
            /\ now < wallet.exp )
          => req'[s].auth = [id |-> wallet.id, email |-> wallet.email]]_vars

\* the client logged out and the token it holds is still accepted
TokenValidAfterLogout ==
  \E s \in Slots :
    /\ Answered(s, "logout")
    /\ wallet # NoToken
    /\ now < wallet.exp
    /\ authMiddleware(wallet, now) = NoResp
    /\ findById(wallet.id) # NoUser

(***************************************************************************)
(* Rate limits                                                             *)
(***************************************************************************)
\* the handler of a limited route starts
Reaches(s, route) == Starts(s, route) /\ route \in Routes

\* a request of the client arrives at the limiters
Arrives == hits'.sub = hits.sub /\ hits'.sent # hits.sent

\* a limiter answers the request of slot s with 429
RejectedByLimiter(s) ==
  /\ req[s].pc = "idle"
  /\ req'[s].pc = "done"
  /\ req'[s].resp.status = 429
  /\ req'[s].op \in {"authLimiter", "strictLimiter", "verificationLimiter"}

DeactivationIsFinal ==
  [][/\ \A k \in Keys :
          ( /\ users[k] # NoUser
            /\ ~ users[k].isActive
            /\ users'[k] # NoUser
            /\ users'[k].id = users[k].id )
          => ~ users'[k].isActive
     /\ \A s \in Slots :
          ( req'[s].op = "deleteMe" /\ req'[s] # req[s] )
          => \A k \in Keys : users[k] # NoUser => /\ users'[k] # NoUser
                                                  /\ users'[k].id = users[k].id
     /\ \A s \in Slots :
          ( /\ req[s].op = "deleteMe" /\ req[s].pc = "save"
            /\ req'[s].pc = "done" /\ req'[s].resp.status = 200 )
          => /\ users'[req[s].user.email] # NoUser
             /\ ~ users'[req[s].user.email].isActive]_vars

\* a signin of the deactivated account was answered with success and the
\* account is still there, inactive
InactiveAfterLaterSignin ==
  \E s \in Slots :
    /\ Answered(s, "signin")
    /\ req[s].resp.status = 200
    /\ ~ req[s].user.isActive
    /\ users[req[s].user.email] # NoUser
    /\ users[req[s].user.email].id = req[s].user.id
    /\ ~ users[req[s].user.email].isActive

(***************************************************************************)
(* Failed delivery of a new code                                           *)
(***************************************************************************)
\* C26: when resendVerification or forgotPassword fails because the mail is
\* not delivered, the pending code stored for the account is the one that
\* was stored before the call.
FailedDeliveryKeepsCode ==
  [][\A s \in Slots :
       ( /\ req[s].op \in {"resendVerification", "forgotPassword"}
         /\ req[s].pc = "mail"
         /\ req'[s].pc = "done"
         /\ req'[s].resp.status = 500
         /\ Stored(req[s]) )
       => IF req[s].op = "resendVerification"
            THEN users'[req[s].user.email].emailVerification
                   = req[s].user.emailVerification
            ELSE users'[req[s].user.email].passwordReset
                   = req[s].user.passwordReset]_vars

(***************************************************************************)
(* Verified accounts and pending codes                                     *)
(***************************************************************************)
\* C27: in every reachable state, also when a resendVerification and a
\* verifyEmail for the same account interleave, an account with
\* emailVerified true has no pending e-mail code.
VerifiedHasNoPendingCode ==
  \A k \in Keys :
    (users[k] # NoUser /\ users[k].emailVerified)
      => users[k].emailVerification = NoCode

(***************************************************************************)
(* Cleanup of expired codes                                                *)
(***************************************************************************)
\* a request whose handler clears the pending code itself is saving
Saving(ops) ==
  \E s \in Slots : req[s].op \in ops /\ req[s].pc = "save" /\ req'[s].pc # "save"

\* C28: the pending e-mail code and the pending reset code are independent:
\* the expiry cleanup (cleanupExpiredCodes and the pre-save hook) clears a
\* pending code of an account only if that code itself has expired.
CleanupClearsOnlyExpired ==
  [][\A k \in Keys :
       ( /\ users[k] # NoUser
         /\ users'[k] # NoUser
         /\ users'[k].id = users[k].id )
       => /\ ( /\ users[k].emailVerification # NoCode
               /\ users'[k].emailVerification = NoCode
               /\ ~ Saving({"verifyEmail", "devVerifyEmail"}) )
             => Expired(users[k].emailVerification, now)
          /\ ( /\ users[k].passwordReset # NoCode
               /\ users'[k].passwordReset = NoCode
               /\ ~ Saving({"resetPassword", "devResetPassword"}) )
             => Expired(users[k].passwordReset, now)]_vars

(***************************************************************************)
(* Persistence of accounts                                                 *)
(***************************************************************************)
\* C29: an account, once created, stays in the store: no operation and no
\* expiry (the store's TTL auto-expiry included) removes its record.
AccountNeverRemoved ==
  [][\A k \in Keys :
       users[k] # NoUser
         => /\ users'[k] # NoUser
            /\ users'[k].id = users[k].id]_vars

(***************************************************************************)
(* Development-only routes                                                 *)
(***************************************************************************)
DevRoutes == {"devVerifyEmail", "devResetPassword"}

\* C30: in production a request to the forced verification or the forced
\* password reset is answered 404 at once and changes no account: neither
\* emailVerified, nor a pending code, nor the password hash.
DevRoutesOffInProduction ==
  [][\A s \in Slots :
       nodeEnv = "production"
         => /\ ( req[s].pc = "idle" /\ req'[s].op \in DevRoutes )
               => /\ req'[s].pc = "done"
                  /\ req'[s].resp.status = 404
                  /\ users' = users
            /\ req[s].op \in DevRoutes => req[s].pc = "done"]_vars

\* in production a forced verification of a stored, unverified account was
\* answered 404 and the account is still unverified, its code pending
DevVerifyRefusedInProduction ==
  \E s \in Slots :
    /\ nodeEnv = "production"
    /\ Answered(s, "devVerifyEmail")
    /\ req[s].resp.status = 404
    /\ findOne(normalizeEmail(req[s].email)) # NoUser
    /\ ~ findOne(normalizeEmail(req[s].email)).emailVerified
    /\ findOne(normalizeEmail(req[s].email)).emailVerification # NoCode

(***************************************************************************)
(* Lock policy: incrementLoginAttempts                                     *)
(***************************************************************************)
\* a model method, not a request, changes the stored document k, and the
\* change is not that of resetLoginAttempts (count 0, lock cleared)
Increments(k) ==
  /\ req' = req
  /\ users[k] # NoUser
  /\ users'[k] # NoUser
  /\ users'[k].id = users[k].id
  /\ users'[k] # users[k]
  /\ users'[k].loginAttempts # 0 \/ users'[k].accountLocked

\* C31: incrementLoginAttempts increases loginAttempts by exactly 1; when
\* the count reaches maxAttempts (5) it sets accountLocked and lockUntil =
\* now + lockTime (30 minutes) and keeps the incremented count; below the
\* threshold accountLocked and lockUntil are unchanged.
IncrementLocksAtThreshold ==
  [][\A k \in Keys :
       Increments(k)
         => /\ users'[k].loginAttempts = users[k].loginAttempts + 1
            /\ IF users'[k].loginAttempts >= maxAttempts
                 THEN /\ users'[k].accountLocked
                      /\ users'[k].lockUntil = now + lockTime
                 ELSE /\ users'[k].accountLocked = users[k].accountLocked
                      /\ users'[k].lockUntil = users[k].lockUntil]_vars

\* the fifth increment locked the account and the count is 5
LockedAtThreshold ==
  \E k \in Keys :
    /\ users[k] # NoUser
    /\ users[k].loginAttempts = maxAttempts
    /\ users[k].accountLocked
    /\ users[k].lockUntil = now + lockTime

(***************************************************************************)
(* Successful signin and the lock policy                                   *)
(***************************************************************************)
\* C32: after any successful signin the account's loginAttempts is 0, its
\* lock is cleared (accountLocked false, lockUntil unset) and lastLogin is
\* the time of that signin, whatever the counter and the lock were before.
SigninResetsLoginAttempts ==
  [][\A s \in Slots :
       Succeeds(s, "signin")
         => /\ users'[req[s].user.email].lastLogin = req[s].upd.lastLogin
            /\ users'[req[s].user.email].loginAttempts = 0
            /\ ~ users'[req[s].user.email].accountLocked
            /\ users'[req[s].user.email].lockUntil = NoDate]_vars

(***************************************************************************)
(* Lock status                                                             *)
(***************************************************************************)
\* C33: in every reachable state the isLocked virtual (and isAccountLocked)
\* of a stored account is true exactly when lockUntil is set and later than
\* the current time; a step of the clock to or past lockUntil makes it
\* false though no operation is applied to the account.
LockedIffLockUntilAhead ==
  [][\A k \in Keys :
       /\ users[k] # NoUser
            => /\ isLocked(users[k], now)
                    <=> (users[k].lockUntil # NoDate /\ users[k].lockUntil > now)
               /\ isAccountLocked(users[k], now) <=> isLocked(users[k], now)
       /\ ( /\ users[k] # NoUser
            /\ users' = users
            /\ users[k].lockUntil # NoDate
            /\ now' >= users[k].lockUntil )
          => ~ isLocked(users[k], now')]_vars

\* the lock of an account ran out: the lock fields are still set and the
\* account is not locked
LockRanOut ==
  \E k \in Keys :
    /\ users[k] # NoUser
    /\ users[k].accountLocked
    /\ users[k].lockUntil # NoDate
    /\ users[k].lockUntil <= now
    /\ ~ isLocked(users[k], now)

(***************************************************************************)
(* Concurrent incrementLoginAttempts                                       *)
(***************************************************************************)
\* C34: when two incrementLoginAttempts calls for one account run
\* concurrently, each on the copy it read (the same stored state), the
\* stored loginAttempts after both saves is 2 higher than before.
NoIncrementLost ==
  ( /\ Answered(1, "incrementLoginAttempts")
    /\ Answered(2, "incrementLoginAttempts")
    /\ req[1].user = req[2].user
    /\ Stored(req[1]) )
  => users[req[1].user.email].loginAttempts = req[1].user.loginAttempts + 2

(***************************************************************************)
(* Verification status and the password                                    *)
(***************************************************************************)
\* C35: signin answers 403 'Please verify your email before signing in'
\* only when the submitted password matches the passwordHash of the
\* account; for an unverified account and a wrong password the answer is
\* the 401 'Invalid email or password' an absent account gets.
UnverifiedShownOnlyToOwner ==
  [][\A s \in Slots :
       /\ ( /\ Starts(s, "signin")
            /\ req'[s].pc = "done"
            /\ req'[s].resp.status = 403 )
          => /\ findOne(KeyOf(s)) # NoUser
             /\ ~ findOne(KeyOf(s)).emailVerified
             /\ bcryptCompare(req'[s].password, findOne(KeyOf(s)).passwordHash)
       /\ ( /\ Starts(s, "signin") /\ isValidEmail(req'[s].email)
            /\ req'[s].password # <<>>
            /\ findOne(KeyOf(s)) # NoUser
            /\ ~ findOne(KeyOf(s)).emailVerified
            /\ ~ bcryptCompare(req'[s].password, findOne(KeyOf(s)).passwordHash) )
          => req'[s] = [Done(IdleReq, Fail(401, "Invalid email or password")) EXCEPT
                          !.op = "signin", !.email = req'[s].email,
                          !.password = req'[s].password]]_vars

\* a signin with a wrong password for an unverified account was answered
\* with the generic 401
UnverifiedWrongPasswordGeneric ==
  \E s \in Slots :
    /\ Answered(s, "signin")
    /\ req[s].resp = Fail(401, "Invalid email or password")
    /\ findOne(normalizeEmail(req[s].email)) # NoUser
    /\ ~ findOne(normalizeEmail(req[s].email)).emailVerified
    /\ ~ bcryptCompare(req[s].password, findOne(normalizeEmail(req[s].email)).passwordHash)

(***************************************************************************)
(* Password recovery and the account flags                                 *)
(***************************************************************************)
\* C36: no step of forgotPassword or resetPassword changes emailVerified or
\* isActive of any account; an unverified account whose password was reset
\* is still unverified, and a signin for an unverified account signs no
\* token.
RecoveryKeepsFlags ==
  [][\A s \in Slots :
       /\ ( req'[s] # req[s] /\ req'[s].op \in {"forgotPassword", "resetPassword"} )
          => \A k \in Keys :
               users[k] # NoUser
                 => /\ users'[k] # NoUser
                    /\ users'[k].id = users[k].id
                    /\ users'[k].emailVerified = users[k].emailVerified
                    /\ users'[k].isActive = users[k].isActive
       /\ ( Succeeds(s, "resetPassword") /\ ~ req[s].user.emailVerified )
          => /\ ~ users'[req[s].user.email].emailVerified
             /\ users'[req[s].user.email].passwordHash = req[s].upd.passwordHash
       /\ ( /\ Starts(s, "signin")
            /\ findOne(KeyOf(s)) # NoUser
            /\ ~ findOne(KeyOf(s)).emailVerified )
          => /\ req'[s].pc = "done"
             /\ req'[s].token = NoToken
             /\ req'[s].resp.status >= 400]_vars

\* an unverified account completed a password reset and is still stored,
\* unverified and active
UnverifiedAfterReset ==
  \E s \in Slots :
    /\ Answered(s, "resetPassword")
    /\ req[s].resp.status = 200
    /\ ~ req[s].user.emailVerified
    /\ Stored(req[s])
    /\ ~ users[req[s].user.email].emailVerified
    /\ users[req[s].user.email].isActive
    /\ users[req[s].user.email].passwordHash # req[s].user.passwordHash

(***************************************************************************)
(* The pre-save cleanup                                                    *)
(***************************************************************************)
\* the save of the request in slot s succeeds in this step
Saves(s) ==
  /\ req[s].pc = "save"
  /\ req'[s].pc # "save"
  /\ req'[s].pc = "done" => req'[s].resp.status < 400

\* C37: after every successful save of an account, by any operation, the
\* stored account holds no pending e-mail code and no pending reset code
\* whose expiresAt is earlier than the time of the save; a pending code that
\* has not expired is kept by the save unless the operation itself replaces
\* or clears it.
SaveDropsExpiredCodes ==
  [][\A s \in Slots :
       Saves(s)
         => LET k == req[s].user.email IN
            /\ users'[k] # NoUser
            /\ ~ Expired(users'[k].emailVerification, now)
            /\ ~ Expired(users'[k].passwordReset, now)
            /\ ( /\ users[k] # NoUser
                 /\ users[k].emailVerification # NoCode
                 /\ ~ Expired(users[k].emailVerification, now)
                 /\ req[s].op \notin {"verifyEmail", "devVerifyEmail", "resendVerification"} )
               => users'[k].emailVerification = users[k].emailVerification
            /\ ( /\ users[k] # NoUser
                 /\ users[k].passwordReset # NoCode
                 /\ ~ Expired(users[k].passwordReset, now)
                 /\ req[s].op \notin {"resetPassword", "forgotPassword"} )
               => users'[k].passwordReset = users[k].passwordReset]_vars

\* the save of a signin dropped the expired reset code of the account
ExpiredCodeDroppedBySave ==
  \E s \in Slots :
    /\ Answered(s, "signin")
    /\ req[s].resp.status = 200
    /\ req[s].user.passwordReset # NoCode
    /\ Stored(req[s])
    /\ users[req[s].user.email].passwordReset = NoCode
    /\ users[req[s].user.email].lastLogin = now

(***************************************************************************)
(* PUT /api/me changes the name and the profile only                       *)
(***************************************************************************)
ProfileFields == {"firstName", "lastName", "avatar"}

\* what PUT /api/me does to everything but the pending codes: the handler
\* goes on to save only for the active account of the token and changes
\* nothing before the save; the save writes the stored document of that
\* account, where every path other than name, profile and the pending codes
\* keeps its value, name changes only if the body has a name, and a
\* sub-field of profile changes only if the body's profile supplies it
UpdateMeFrame(s) ==
  \A name \in NameInputs, profile \in ProfileBodies :
    /\ ( UpdateMe(s, wallet, name, profile) /\ req'[s].pc = "save" )
         => /\ users' = users
            /\ req'[s].user = findById(wallet.id)
            /\ LET k == req'[s].user.email
                   doc == Merge(req'[s].upd, users[k])
               IN  /\ \A f \in DOMAIN doc \ {"name", "profile", "emailVerification",
                                             "passwordReset"} :
                         doc[f] = users[k][f]
                   /\ name = Undefined => doc.name = users[k].name
                   /\ \A g \in ProfileFields :
                        ( profile[g] = Undefined \/ trim(profile[g]) = <<>> )
                          => doc.profile[g] = users[k].profile[g]
    /\ ( req[s].op = "updateMe" /\ req[s].pc = "save" /\ req'[s].pc = "done" )
         => \A k \in Keys :
              \/ users'[k] = users[k]
              \/ /\ k = req[s].user.email
                 /\ users[k] # NoUser
                 /\ users'[k] # NoUser
                 /\ \A f \in DOMAIN users[k] \ {"emailVerification", "passwordReset"} :
                      users'[k][f] = Merge(req[s].upd, users[k])[f]

\* C38 as stated: update profile changes only the name and the profile
\* sub-fields named in the request; it never changes email, passwordHash,
\* emailVerified, the pending codes, the lock fields or isActive, and a
\* profile sub-field that is not supplied keeps its value.
UpdateMeChangesProfileOnly ==
  [][\A s \in Slots :
       /\ UpdateMeFrame(s)
       /\ ( req[s].op = "updateMe" /\ req[s].pc = "save" /\ req'[s].pc = "done" )
            => \A k \in Keys :
                 ( users[k] # NoUser /\ users'[k] # NoUser )
                   => /\ users'[k].emailVerification = users[k].emailVerification
                      /\ users'[k].passwordReset = users[k].passwordReset]_vars

\* C38 amended: the same, except that the save clears a pending code that
\* has expired; a pending code that has not expired is kept.
UpdateMeKeepsUnexpiredCodes ==
  [][\A s \in Slots :
       /\ UpdateMeFrame(s)
       /\ ( req[s].op = "updateMe" /\ req[s].pc = "save" /\ req'[s].pc = "done" )
            => \A k \in Keys :
                 ( users[k] # NoUser /\ users'[k] # NoUser )
                   => /\ users'[k].emailVerification =
                           IF Expired(users[k].emailVerification, now)
                             THEN NoCode ELSE users[k].emailVerification
                      /\ users'[k].passwordReset =
                           IF Expired(users[k].passwordReset, now)
                             THEN NoCode ELSE users[k].passwordReset]_vars

\* an update that supplied the last name only was answered: the stored
\* profile has the new last name and the first name it had before
LastNameUpdated ==
  \E s \in Slots :
    /\ Answered(s, "updateMe")
    /\ req[s].resp.status = 200
    /\ req[s].user.profile.firstName = <<"f">>
    /\ req[s].user.profile.lastName = Undefined
    /\ Stored(req[s])
    /\ users[req[s].user.email].profile.firstName = <<"f">>
    /\ users[req[s].user.email].profile.lastName = <<"l">>

(***************************************************************************)
(* The protected routes run behind authMiddleware                          *)
(***************************************************************************)
ProtectedOps == {"getMe", "updateMe", "deleteMe", "getStats", "getHealthDetailed"}

\* the token has a signature made with JWT_SECRET, has not expired and
\* carries both the id and the email
GoodToken(token) ==
  /\ token # NoToken
  /\ token.sig = JWT_SECRET
  /\ now < token.exp
  /\ token.id # NoId
  /\ token.email # NoEmail

\* C39: the handler of a protected route runs (req.user is set from the
\* token) only for a token with a valid signature that has not expired and
\* holds both id and email; for every other request (no token, foreign
\* signature, expired, id or email missing) the answer is 401, req.user is
\* not set and nothing is written.
HandlerRunsOnlyWithGoodToken ==
  [][\A s \in Slots :
       ( Starts(s, req'[s].op) /\ req'[s].op \in ProtectedOps )
         => IF GoodToken(req'[s].token)
              THEN req'[s].auth = [id |-> req'[s].token.id,
                                   email |-> req'[s].token.email]
              ELSE /\ req'[s].auth = NoUser
                   /\ req'[s].pc = "done"
                   /\ req'[s].resp.status = 401
                   /\ req'[s].user = NoUser
                   /\ users' = users]_vars

\* a token signed with JWT_SECRET, not expired, whose payload has no id was
\* turned away by the middleware
MissingClaimRejected ==
  \E s \in Slots :
    /\ req[s].pc = "done"
    /\ req[s].op \in ProtectedOps
    /\ req[s].token = NoIdToken
    /\ req[s].auth = NoUser
    /\ req[s].resp = Fail(401, "Invalid token payload. Please sign in again.")

(***************************************************************************)
(* The start of the server                                                 *)
(***************************************************************************)
\* the database connection failed, or the mailer initialization failed in
\* production
StartFailed ==
  \/ boot.db = "failed"
  \/ boot.mailer = "failed" /\ nodeEnv = "production"

\* C40: the server accepts requests only after initMailer has completed and
\* after that connectDB has succeeded; when the database connection fails,
\* or the mailer initialization fails in production, the server never
\* listens and the process exits with code 1.
ListensAfterMailerAndDatabase ==
  /\ [](\A s \in Slots : req[s].pc # "idle" => boot.pc = "listening")
  /\ [](boot.pc = "listening"
          => /\ boot.log = <<"initMailer", "connectDB", "listen">>
             /\ boot.mailer # "none"
             /\ boot.db = "connected")
  /\ [](StartFailed => [](boot.pc # "listening"))
  /\ StartFailed ~> (boot.pc = "exited" /\ boot.exit = 1)

\* in development the server listens, although the mailer could not be
\* initialized, and has answered a request
ServingAfterStart ==
  /\ boot.pc = "listening"
  /\ boot.mailer = "failed"
  /\ boot.db = "connected"
  /\ \E s \in Slots : req[s].pc = "done"

====
